---- MODULE Spec2Model ----
(***************************************************************************)
(* MCP Security Auditor: the security probing and scoring engine.          *)
(*                                                                         *)
(*   SecurityAnalyzer.analyzeServer   eight probes, allSettled join, merge *)
(*   SecurityAnalyzer.calculateSecurityScore   weighted grade of checks    *)
(*   ReportGenerator.calculateOverallScore     aggregate grade             *)
(*   MCPSecurityAuditor.performAudit  fan-out of analyses over servers     *)
(*   ReportGenerator.createAuditSummary        counts over the results     *)
(*   DiscoveryService.discoverServers          batched source lookups      *)
(*                                                                         *)
(* Nine specifications share the variables below:                          *)
(*   Spec         one analyzeServer call, probes settling in any order     *)
(*   SpecScore    calculateSecurityScore applied to drawn checks           *)
(*   SpecOverall  calculateOverallScore applied to drawn grades            *)
(*   SpecAudit    performAudit over drawn discovery results                *)
(*   SpecProbe    one probe method applied to a drawn server and network   *)
(*   SpecSummary  createAuditSummary applied to drawn analysis results     *)
(*   SpecDiscovery  discoverServers over drawn sources, in batches, and    *)
(*                the launch of the analyses that performAudit makes of it *)
(*   SpecEnum     checkAPIEndpoints, one request after another             *)
(*   SpecCert     getCertificateInfo's connect, error and timer events     *)
(*                racing while the TLS probe awaits it                     *)
(***************************************************************************)
EXTENDS Integers, Sequences, FiniteSets, TLC

VARIABLES
    \* ---- Spec: one SecurityAnalyzer.analyzeServer call ----
    server,        \* the MCPServer record handed to analyzeServer
    net,           \* what the network answers to each probe's request
    probeFault,    \* probes whose async body raises (an internal fault)
    tryFault,      \* an exception raised inside analyzeServer's try block
    pc,            \* position of analyzeServer: start, awaiting, done, rejected
    probeState,    \* per probe promise: idle, pending, fulfilled, rejected
    probeOut,      \* per probe: the findings its promise fulfilled with
    warnLog,       \* console.warn lines of analyzeServer (probe indexes)
    result,        \* the SecurityAnalysisResult, or the error thrown
    \* ---- SpecScore: calculateSecurityScore ----
    scorePc,       \* input, scored
    checksIn,      \* the checks collection given to the scorer
    vulnsIn,       \* vulnerabilities found next to these checks
    scoreAcc,      \* totalScore / maxScore after the forEach loop
    scoreResult,   \* the graded SecurityAnalysisResult
    \* ---- SpecOverall: calculateOverallScore ----
    aggPc,         \* input, done
    scoresIn,      \* the per-server grades
    overallScore,  \* the aggregate grade
    \* ---- SpecAudit: performAudit ----
    auditPc,          \* start, awaiting, returned, rejected
    discovery,        \* outcome of discoverServers: DiscoveryResult[] or a rejection
    allServers,       \* discoveryResults.flatMap(result => result.servers)
    cbState,          \* per server callback: pending / settled
    analysisResults,  \* the shared results array the callbacks push to
    errorLog,         \* console.error lines of the callbacks (server ids)
    auditEnv,         \* per server: its network and the faults raised for it
    settleOrder,      \* order in which the analyses settled
    returned,         \* what performAudit resolved with
    \* ---- SpecProbe: one probe method ----
    unitPc,        \* start, returned
    unitProbe,     \* index of the probe method that is called
    unitServer,    \* the MCPServer record it is called with
    unitNet,       \* what the network answers to its requests
    unitOut,       \* the findings it returned
    \* ---- SpecSummary: createAuditSummary ----
    sumPc,         \* input, done
    resultsGiven,  \* the results collection as the caller built it
    resultsIn,     \* the results collection as it is now
    summary,       \* the AuditSummary
    \* ---- SpecDiscovery: discoverServers ----
    discPc,        \* start, chunking, loop, batch, returned, rejected,
                   \* analysing, done
    config,        \* the DiscoveryConfig: sources and maxConcurrent
    batches,       \* chunkArray(enabledSources, maxConcurrent), as built so far
    chunkI,        \* the loop variable i of chunkArray
    batchNo,       \* index of the batch of the running for-iteration
    lookupState,   \* per enabled source: idle, pending, fulfilled, rejected
    discResults,   \* the results array of discoverServers
    discLog,       \* console.error lines of discoverServers (source types)
    inFlight,      \* analyses performAudit has launched and not yet settled
    \* ---- SpecEnum: checkAPIEndpoints, request by request ----
    enumPc,        \* start, awaiting, returned
    enumNet,       \* what the network answers to the GET of each path
    enumI,         \* index of the path of the running for-iteration
    enumLog,       \* the paths requested so far, in the order of the requests
    enumOut,       \* the checks, recommendations, vulnerabilities pushed so far
    \* ---- SpecCert: getCertificateInfo inside checkSSLConfiguration ----
    certPc,        \* start, awaiting, returned (position of the TLS probe)
    certServer,    \* the MCPServer record the TLS probe is called with
    certPeer,      \* the certificate and protocol the peer has to offer
    socket,        \* none, connecting, ended, errored, destroyed
    timer,         \* none, armed, fired (the setTimeout of line 850)
    certPromise,   \* the promise of getCertificateInfo: status and outcome
    certSettles,   \* how many times the promise changed its state
    certLog,       \* the events that called resolve or reject, in order
    tlsOut         \* what the TLS probe returned

vars == << server, net, probeFault, tryFault, pc, probeState, probeOut, warnLog,
           result, scorePc, checksIn, vulnsIn, scoreAcc, scoreResult, aggPc,
           scoresIn, overallScore, auditPc, discovery, allServers, cbState,
           analysisResults, errorLog, auditEnv, settleOrder, returned,
           unitPc, unitProbe, unitServer, unitNet, unitOut, sumPc,
           resultsGiven, resultsIn, summary, discPc, config, batches, chunkI,
           batchNo, lookupState, discResults, discLog, inFlight, enumPc,
           enumNet, enumI, enumLog, enumOut, certPc, certServer, certPeer,
           socket, timer, certPromise, certSettles, certLog, tlsOut >>

analyzeVars == << server, net, probeFault, tryFault, pc, probeState, probeOut,
                  warnLog, result >>
scoreVars   == << scorePc, checksIn, vulnsIn, scoreAcc, scoreResult >>
overallVars == << aggPc, scoresIn, overallScore >>
auditVars   == << auditPc, discovery, allServers, cbState, analysisResults,
                  errorLog, auditEnv, settleOrder, returned >>
probeVars   == << unitPc, unitProbe, unitServer, unitNet, unitOut >>
summaryVars == << sumPc, resultsGiven, resultsIn, summary >>
discVars    == << discPc, config, batches, chunkI, batchNo, lookupState,
                  discResults, discLog, inFlight >>
enumVars    == << enumPc, enumNet, enumI, enumLog, enumOut >>
certVars    == << certPc, certServer, certPeer, socket, timer, certPromise,
                  certSettles, certLog, tlsOut >>

(***************************************************************************)
(* Bounds of the model.                                                    *)
(***************************************************************************)
MaxChecks  == 2   \* longest checks collection drawn for the scorer
MaxScores  == 3   \* longest grade collection drawn for the aggregate
MaxFaults  == 2   \* most probes that raise in one analyzeServer call
MaxServers == 3   \* most servers discovery returns to one audit
MaxSources == 3   \* most sources of one DiscoveryConfig
MaxChunks  == 4   \* chunks after which a chunkArray loop is no longer followed

(***************************************************************************)
(* Types (types.ts).                                                       *)
(***************************************************************************)
\* enum Severity; "other" stands for a value outside the enum, which
\* getSeverityWeight's default branch receives.
Severities == {"critical", "high", "medium", "low", "info"}
AnySeverity == Severities \cup {"other"}

\* enum CheckStatus
CheckStatuses == {"pass", "fail", "warning", "skip", "error"}

\* enum SecurityScore: EXCELLENT = 'A' .. CRITICAL = 'F'
SecurityScores == {"A", "B", "C", "D", "F"}

\* MCPServer.protocol
Protocols == {"http", "https", "ws", "wss"}

\* interface SecurityCheck: id, name, status, severity, details (optional:
\* "" when the code sets none). category, description, evidence play no part
\* in any decision of the code and are left out.
Check(id, name, status, severity, details) ==
    [id |-> id, name |-> name, status |-> status, severity |-> severity,
     details |-> details]

\* interface Vulnerability: id, severity
Vuln(id, severity) == [id |-> id, severity |-> severity]

\* interface SecurityRecommendation: id, severity
Rec(id, severity) == [id |-> id, severity |-> severity]

\* The elements of a sequence
Range(seq) == {seq[i] : i \in 1 .. Len(seq)}

\* The value every probe returns: { checks, recommendations, vulnerabilities }
Findings(cs, rs, vs) ==
    [checks |-> cs, recommendations |-> rs, vulnerabilities |-> vs]

NoFindings == Findings(<< >>, << >>, << >>)

\* `error instanceof Error ? error.message : 'Unknown error'`
ErrorMessage == "error.message"

(***************************************************************************)
(* Scorer: SecurityAnalyzer.calculateSecurityScore / getSeverityWeight.    *)
(* totalScore takes half weights (severityWeight * 0.5), so the model      *)
(* keeps totalScore2 = 2 * totalScore.  The code compares the IEEE double  *)
(* (totalScore / maxScore) * 100 with 90, 80, 60, 40; for every maxScore   *)
(* below 400 that comparison agrees with the exact one used here.          *)
(***************************************************************************)
getSeverityWeight(severity) ==
    CASE severity = "critical" -> 10
      [] severity = "high"     -> 8
      [] severity = "medium"   -> 5
      [] severity = "low"      -> 2
      [] severity = "info"     -> 1
      [] OTHER                 -> 1

ZeroScore == [totalScore2 |-> 0, maxScore |-> 0]

\* An iteration that gives a warning the full weight
ScoreStepWarningFull(acc, check) ==
    LET severityWeight == getSeverityWeight(check.severity)
    IN  [maxScore    |-> acc.maxScore + severityWeight,
         totalScore2 |-> acc.totalScore2 +
             (IF check.status \in {"pass", "warning"} THEN 2 * severityWeight
              ELSE 0)]

\* An iteration that leaves a check of status error out of the score
ScoreStepSkipError(acc, check) ==
    LET severityWeight == getSeverityWeight(check.severity)
    IN  IF check.status = "error" THEN acc
        ELSE [maxScore    |-> acc.maxScore + severityWeight,
              totalScore2 |-> acc.totalScore2 +
                  (IF check.status = "pass" THEN 2 * severityWeight
                   ELSE IF check.status = "warning" THEN severityWeight
                   ELSE 0)]

\* One iteration of checks.forEach(check => ...)
ScoreStep(acc, check) ==
    LET severityWeight == getSeverityWeight(check.severity)
    IN  [maxScore    |-> acc.maxScore + severityWeight,
         totalScore2 |-> acc.totalScore2 +
             (IF check.status = "pass" THEN 2 * severityWeight
              ELSE IF check.status = "warning" THEN severityWeight
              ELSE 0)]

RECURSIVE ScoreLoop(_, _)
ScoreLoop(checks, acc) ==
    IF checks = << >> THEN acc
    ELSE ScoreLoop(Tail(checks), ScoreStep(acc, Head(checks)))

\* percentage >= t, with percentage = (totalScore / maxScore) * 100
PercentageAtLeast(acc, t) == 100 * acc.totalScore2 >= t * 2 * acc.maxScore

\* A mapping whose thresholds are open at the lower bound (> for >=)
GradeOfStrict(acc) ==
    IF acc.maxScore = 0 THEN "C"
    ELSE IF 100 * acc.totalScore2 > 90 * 2 * acc.maxScore THEN "A"
    ELSE IF 100 * acc.totalScore2 > 80 * 2 * acc.maxScore THEN "B"
    ELSE IF 100 * acc.totalScore2 > 60 * 2 * acc.maxScore THEN "C"
    ELSE IF 100 * acc.totalScore2 > 40 * 2 * acc.maxScore THEN "D"
    ELSE "F"

\* Lines 907-915: the default for no checks, then the thresholds
GradeOf(acc) ==
    IF acc.maxScore = 0 THEN "C"
    ELSE IF PercentageAtLeast(acc, 90) THEN "A"
    ELSE IF PercentageAtLeast(acc, 80) THEN "B"
    ELSE IF PercentageAtLeast(acc, 60) THEN "C"
    ELSE IF PercentageAtLeast(acc, 40) THEN "D"
    ELSE "F"

calculateSecurityScore(checks) == GradeOf(ScoreLoop(checks, ZeroScore))

(***************************************************************************)
(* Aggregate grade: ReportGenerator.calculateOverallScore.                 *)
(***************************************************************************)
scoreValues(score) ==
    CASE score = "A" -> 5
      [] score = "B" -> 4
      [] score = "C" -> 3
      [] score = "D" -> 2
      [] score = "F" -> 1

RECURSIVE SumScoreValues(_)
SumScoreValues(scores) ==
    IF scores = << >> THEN 0
    ELSE scoreValues(Head(scores)) + SumScoreValues(Tail(scores))

\* average >= h/2, with average = sum / scores.length
AverageAtLeastHalves(scores, h) == 2 * SumScoreValues(scores) >= h * Len(scores)

\* An aggregate whose thresholds are open at the lower bound (> for >=)
calculateOverallScoreStrict(scores) ==
    IF Len(scores) = 0 THEN "C"
    ELSE IF 2 * SumScoreValues(scores) > 9 * Len(scores) THEN "A"
    ELSE IF 2 * SumScoreValues(scores) > 7 * Len(scores) THEN "B"
    ELSE IF 2 * SumScoreValues(scores) > 5 * Len(scores) THEN "C"
    ELSE IF 2 * SumScoreValues(scores) > 3 * Len(scores) THEN "D"
    ELSE "F"

calculateOverallScore(scores) ==
    IF Len(scores) = 0 THEN "C"
    ELSE IF AverageAtLeastHalves(scores, 9) THEN "A"
    ELSE IF AverageAtLeastHalves(scores, 7) THEN "B"
    ELSE IF AverageAtLeastHalves(scores, 5) THEN "C"
    ELSE IF AverageAtLeastHalves(scores, 3) THEN "D"
    ELSE "F"

(***************************************************************************)
(* Audit summary: ReportGenerator.createAuditSummary.                      *)
(***************************************************************************)
\* vulnerabilities.filter(v => v.severity === severity).length
CountSeverity(findings, severity) ==
    Cardinality({i \in DOMAIN findings : findings[i].severity = severity})

\* checks.filter(c => c.severity === HIGH && c.status === FAIL).length
CountHighFailed(checks) ==
    Cardinality({i \in DOMAIN checks :
                    checks[i].severity = "high" /\ checks[i].status = "fail"})

\* results.reduce((count, result) => count + term, 0), over the terms
RECURSIVE SumOf(_)
SumOf(terms) ==
    IF terms = << >> THEN 0 ELSE Head(terms) + SumOf(Tail(terms))

NoSummary ==
    [totalServers |-> 0, serversAnalyzed |-> 0, overallSecurityScore |-> "",
     criticalVulnerabilities |-> 0, highSeverityIssues |-> 0,
     recommendations |-> 0]

\* A summary that counts every high-severity check, whatever its status
createAuditSummaryAnyStatus(results) ==
    [totalServers            |-> Len(results),
     serversAnalyzed         |->
         Cardinality({i \in DOMAIN results : Len(results[i].checks) > 0}),
     overallSecurityScore    |->
         calculateOverallScore([i \in DOMAIN results |->
                                   results[i].overallScore]),
     criticalVulnerabilities |->
         SumOf([i \in DOMAIN results |->
                   CountSeverity(results[i].vulnerabilities, "critical")]),
     highSeverityIssues      |->
         SumOf([i \in DOMAIN results |->
                   CountSeverity(results[i].vulnerabilities, "high")
                     + CountSeverity(results[i].checks, "high")]),
     recommendations         |->
         SumOf([i \in DOMAIN results |-> Len(results[i].recommendations)])]

createAuditSummary(results) ==
    LET totalServers    == Len(results)
        serversAnalyzed ==
            Cardinality({i \in DOMAIN results : Len(results[i].checks) > 0})
        criticalVulnerabilities ==
            SumOf([i \in DOMAIN results |->
                      CountSeverity(results[i].vulnerabilities, "critical")])
        highSeverityIssues ==
            SumOf([i \in DOMAIN results |->
                      LET highVulns ==
                              CountSeverity(results[i].vulnerabilities, "high")
                          highFailedChecks ==
                              CountHighFailed(results[i].checks)
                      IN  highVulns + highFailedChecks])
        recommendations ==
            SumOf([i \in DOMAIN results |-> Len(results[i].recommendations)])
        scores == [i \in DOMAIN results |-> results[i].overallScore]
    IN  [totalServers            |-> totalServers,
         serversAnalyzed         |-> serversAnalyzed,
         overallSecurityScore    |-> calculateOverallScore(scores),
         criticalVulnerabilities |-> criticalVulnerabilities,
         highSeverityIssues      |-> highSeverityIssues,
         recommendations         |-> recommendations]

(***************************************************************************)
(* The network as the probes see it.  Every request either fails (axios    *)
(* rejects: refused, DNS, timeout, invalid URL) or completes with a        *)
(* response; validateStatus: () => true accepts every status.              *)
(*   headers    names of the response headers that carry a non-empty value *)
(*   acao       the access-control-allow-origin header                     *)
(*   sensitive  containsSensitiveInfo(response.data)                       *)
(*   cause      why the request failed: "refused" (no listener, DNS,       *)
(*              invalid URL) or "timeout" (the 10 s request timeout)       *)
(***************************************************************************)
Fail ==
    [ok |-> FALSE, status |-> 0, headers |-> {}, acao |-> "absent",
     sensitive |-> FALSE, cause |-> "refused"]

\* timeout: this.requestTimeout expired: axios rejects as for any failure
TimedOut == [Fail EXCEPT !.cause = "timeout"]

Response(status, headers, acao, sensitive) ==
    [ok |-> TRUE, status |-> status, headers |-> headers, acao |-> acao,
     sensitive |-> sensitive, cause |-> "none"]

\* 30 * 24 * 60 * 60 * 1000 ms; the model's clock counts days.
ThirtyDays == 30

\* const endpoints = ['/metadata', ...] of checkAPIEndpoints
Endpoints ==
    << "/metadata", "/info", "/health", "/status", "/api", "/docs", "/swagger",
       "/openapi" >>

\* `endpoint-${endpoint.replace('/', '-')}`
EndpointCheckId(i) ==
    << "endpoint--metadata", "endpoint--info", "endpoint--health",
       "endpoint--status", "endpoint--api", "endpoint--docs",
       "endpoint--swagger", "endpoint--openapi" >>[i]

\* `sensitive-info-${endpoint}`
SensitiveInfoId(i) ==
    << "sensitive-info-/metadata", "sensitive-info-/info",
       "sensitive-info-/health", "sensitive-info-/status", "sensitive-info-/api",
       "sensitive-info-/docs", "sensitive-info-/swagger",
       "sensitive-info-/openapi" >>[i]

\* const securityHeaders = {...} of checkHttpSecurity, in insertion order
SecurityHeaders ==
    << "strict-transport-security", "x-content-type-options", "x-frame-options",
       "x-xss-protection", "content-security-policy" >>

SecurityHeaderNames ==
    << "HSTS Header", "Content Type Options Header", "Frame Options Header",
       "XSS Protection Header", "Content Security Policy Header" >>

\* `security-header-${header}`
SecurityHeaderCheckId(i) ==
    << "security-header-strict-transport-security",
       "security-header-x-content-type-options",
       "security-header-x-frame-options", "security-header-x-xss-protection",
       "security-header-content-security-policy" >>[i]

\* `add-${header}-header`
AddHeaderRecId(i) ==
    << "add-strict-transport-security-header",
       "add-x-content-type-options-header", "add-x-frame-options-header",
       "add-x-xss-protection-header", "add-content-security-policy-header" >>[i]

IsWebSocket(srv) == srv.protocol = "ws" \/ srv.protocol = "wss"

(***************************************************************************)
(* Probe 0: checkEndpointAvailability.                                     *)
(***************************************************************************)
\* A connect whose timer resolves the promise instead of rejecting it
checkWebSocketAvailabilityResolveOnTimeout(srv, n) ==
    IF srv.endpoint = "empty" THEN "error"
    ELSE IF n.ws = "timeout" THEN "open" ELSE n.ws

\* checkWebSocketAvailability: open resolves, error or the 10 s timer reject;
\* new WebSocket('') throws inside the executor, which rejects as well.
checkWebSocketAvailability(srv, n) ==
    IF srv.endpoint = "empty" THEN "error" ELSE n.ws

\* A catch block that reports the failure as a warning, without a vulnerability
EndpointUnreachableAsWarning ==
    Findings(
        << Check("endpoint-availability", "Endpoint Availability", "warning",
                 "medium", ErrorMessage) >>,
        << >>, << >>)

\* The catch block: one fail check and one vulnerability.
EndpointUnreachable ==
    Findings(
        << Check("endpoint-availability", "Endpoint Availability", "fail",
                 "critical", ErrorMessage) >>,
        << >>,
        << Vuln("endpoint-unreachable", "high") >>)

\* A probe that reports every status outside [200,300) as a warning
checkEndpointAvailabilityAnyStatus(srv, n) ==
    IF IsWebSocket(srv)
    THEN IF checkWebSocketAvailability(srv, n) = "open"
         THEN Findings(
                  << Check("endpoint-availability-ws",
                           "WebSocket Endpoint Availability", "pass", "high", "") >>,
                  << >>, << >>)
         ELSE EndpointUnreachable
    ELSE LET response == n.reach
         IN  IF ~response.ok THEN EndpointUnreachable
             ELSE IF response.status >= 200 /\ response.status < 300
             THEN Findings(
                      << Check("endpoint-availability-http",
                               "HTTP Endpoint Availability", "pass", "high", "") >>,
                      << >>, << >>)
             ELSE Findings(
                      << Check("endpoint-availability-http",
                               "HTTP Endpoint Availability", "warning", "medium",
                               "HTTP status") >>,
                      << >>, << >>)

checkEndpointAvailability(srv, n) ==
    IF IsWebSocket(srv)
    THEN IF checkWebSocketAvailability(srv, n) = "open"
         THEN Findings(
                  << Check("endpoint-availability-ws",
                           "WebSocket Endpoint Availability", "pass", "high", "") >>,
                  << >>, << >>)
         ELSE EndpointUnreachable
    ELSE LET response == n.reach
         IN  IF ~response.ok THEN EndpointUnreachable
             ELSE IF response.status >= 200 /\ response.status < 300
             THEN Findings(
                      << Check("endpoint-availability-http",
                               "HTTP Endpoint Availability", "pass", "high", "") >>,
                      << >>, << >>)
             ELSE IF response.status >= 400
             THEN Findings(
                      << Check("endpoint-availability-http",
                               "HTTP Endpoint Availability", "warning", "medium",
                               "HTTP status") >>,
                      << >>, << >>)
             ELSE NoFindings

(***************************************************************************)
(* Probe 1: checkSSLConfiguration, with getCertificateInfo's outcome       *)
(* n.cert: kind "cert" (validFrom, validTo as days), "empty" (the peer     *)
(* sent no certificate: getPeerCertificate() is {}), "error", "timeout".   *)
(* n.cert.tls is the protocol version the handshake negotiated, "none"     *)
(* when there was no handshake.                                            *)
(***************************************************************************)
\* The versions a handshake with (hostname, port) can negotiate
TlsVersions == {"TLSv1", "TLSv1.1", "TLSv1.2", "TLSv1.3"}

\* checkTLSConfiguration: the placeholder, whatever was negotiated
checkTLSConfiguration(srv, n) == [supportsTLS12 |-> TRUE, supportsTLS13 |-> TRUE]

SslCheckError ==
    Findings(
        << Check("ssl-check-error", "SSL Configuration Check", "error",
                 "medium", ErrorMessage) >>,
        << >>, << >>)

\* Lines 376-408: the tls-version check appended after the certificate part
TlsVersionFindings(srv, n) ==
    LET tlsInfo == checkTLSConfiguration(srv, n)
    IN  IF tlsInfo.supportsTLS12 \/ tlsInfo.supportsTLS13
        THEN Findings(
                 << Check("tls-version", "TLS Version Support", "pass",
                          "medium", "") >>,
                 << >>, << >>)
        ELSE Findings(
                 << Check("tls-version", "TLS Version Support", "fail", "high",
                          "") >>,
                 << >>,
                 << Vuln("outdated-tls", "high") >>)

\* A probe whose expiry warning leaves out the 30th day (< for <=)
checkSSLConfigurationBefore30(srv, n) ==
    IF srv.protocol # "https" /\ srv.protocol # "wss"
    THEN Findings(
             << Check("ssl-not-used", "SSL/TLS Usage", "fail", "high", "") >>,
             << >>,
             << Vuln("unencrypted-communication", "high") >>)
    ELSE IF srv.endpoint = "empty" \/ n.cert.kind # "cert"
    THEN SslCheckError
    ELSE LET now       == n.cert.now
             notBefore == n.cert.validFrom
             notAfter  == n.cert.validTo
             valid     == now >= notBefore /\ now <= notAfter
             tls       == TlsVersionFindings(srv, n)
         IN  Findings(
                 << IF valid
                    THEN Check("ssl-certificate-valid", "SSL Certificate Validity",
                               "pass", "high", "")
                    ELSE Check("ssl-certificate-valid", "SSL Certificate Validity",
                               "fail", "critical", "Valid from, Valid to") >>
                   \o tls.checks,
                 IF notAfter < now + ThirtyDays
                 THEN << Rec("certificate-expiry-warning", "medium") >>
                 ELSE << >>,
                 (IF valid THEN << >>
                  ELSE << Vuln("expired-certificate", "critical") >>)
                   \o tls.vulnerabilities)

checkSSLConfiguration(srv, n) ==
    IF srv.protocol # "https" /\ srv.protocol # "wss"
    THEN Findings(
             << Check("ssl-not-used", "SSL/TLS Usage", "fail", "high", "") >>,
             << >>,
             << Vuln("unencrypted-communication", "high") >>)
    ELSE IF srv.endpoint = "empty"
    THEN SslCheckError                      \* new URL('') throws
    ELSE IF n.cert.kind = "error" \/ n.cert.kind = "timeout"
    THEN SslCheckError                      \* getCertificateInfo rejected
    ELSE IF n.cert.kind = "empty"
    THEN SslCheckError   \* Invalid Date: toISOString() throws before the push
    ELSE LET now       == n.cert.now
             notBefore == n.cert.validFrom
             notAfter  == n.cert.validTo
             valid     == now >= notBefore /\ now <= notAfter
             tls       == TlsVersionFindings(srv, n)
         IN  Findings(
                 << IF valid
                    THEN Check("ssl-certificate-valid", "SSL Certificate Validity",
                               "pass", "high", "")
                    ELSE Check("ssl-certificate-valid", "SSL Certificate Validity",
                               "fail", "critical", "Valid from, Valid to") >>
                   \o tls.checks,
                 IF notAfter <= now + ThirtyDays
                 THEN << Rec("certificate-expiry-warning", "medium") >>
                 ELSE << >>,
                 (IF valid THEN << >>
                  ELSE << Vuln("expired-certificate", "critical") >>)
                   \o tls.vulnerabilities)

(***************************************************************************)
(* Probe 2: checkAuthentication.                                           *)
(***************************************************************************)
\* A probe that looks for the www-authenticate header only
checkAuthenticationOneHeader(srv, n) ==
    LET response == n.auth
        hasAuthHeaders == "www-authenticate" \in response.headers
    IN  IF ~response.ok
        THEN Findings(
                 << Check("authentication-check-error", "Authentication Check",
                          "error", "low", ErrorMessage) >>,
                 << >>, << >>)
        ELSE Findings(
                 (IF response.status = 401 \/ response.status = 403
                  THEN << Check("authentication-required",
                                "Authentication Required", "pass", "high", "") >>
                  ELSE IF response.status = 200
                  THEN << Check("authentication-required",
                                "Authentication Required", "warning", "medium",
                                "") >>
                  ELSE << >>)
                   \o
                 (IF hasAuthHeaders
                  THEN << Check("auth-headers-present", "Authentication Headers",
                                "pass", "low", "") >>
                  ELSE << >>),
                 IF response.status = 200
                 THEN << Rec("implement-authentication", "medium") >>
                 ELSE << >>,
                 << >>)

checkAuthentication(srv, n) ==
    LET response == n.auth
        hasAuthHeaders ==
            response.headers \cap {"www-authenticate", "authorization"} # {}
    IN  IF ~response.ok
        THEN Findings(
                 << Check("authentication-check-error", "Authentication Check",
                          "error", "low", ErrorMessage) >>,
                 << >>, << >>)
        ELSE Findings(
                 (IF response.status = 401 \/ response.status = 403
                  THEN << Check("authentication-required",
                                "Authentication Required", "pass", "high", "") >>
                  ELSE IF response.status = 200
                  THEN << Check("authentication-required",
                                "Authentication Required", "warning", "medium",
                                "") >>
                  ELSE << >>)
                   \o
                 (IF hasAuthHeaders
                  THEN << Check("auth-headers-present", "Authentication Headers",
                                "pass", "low", "") >>
                  ELSE << >>),
                 IF response.status = 200
                 THEN << Rec("implement-authentication", "medium") >>
                 ELSE << >>,
                 << >>)

(***************************************************************************)
(* Probe 3: checkHttpSecurity.                                             *)
(***************************************************************************)
\* A loop that reports the first missing header and leaves the later ones out
RECURSIVE HeaderLoopFirstMissing(_, _, _)
HeaderLoopFirstMissing(i, response, acc) ==
    IF i > Len(SecurityHeaders) THEN acc
    ELSE IF SecurityHeaders[i] \in response.headers
    THEN HeaderLoopFirstMissing(i + 1, response,
             Findings(
                 Append(acc.checks,
                        Check(SecurityHeaderCheckId(i), SecurityHeaderNames[i],
                              "pass", "low", "")),
                 acc.recommendations, acc.vulnerabilities))
    ELSE Findings(
             Append(acc.checks,
                    Check(SecurityHeaderCheckId(i), SecurityHeaderNames[i],
                          "warning", "low", "")),
             Append(acc.recommendations, Rec(AddHeaderRecId(i), "low")),
             acc.vulnerabilities)

\* Object.entries(securityHeaders).forEach(...), from entry i on
RECURSIVE HeaderLoop(_, _, _)
HeaderLoop(i, response, acc) ==
    IF i > Len(SecurityHeaders) THEN acc
    ELSE HeaderLoop(i + 1, response,
             IF SecurityHeaders[i] \in response.headers
             THEN Findings(
                      Append(acc.checks,
                             Check(SecurityHeaderCheckId(i), SecurityHeaderNames[i],
                                   "pass", "low", "")),
                      acc.recommendations, acc.vulnerabilities)
             ELSE Findings(
                      Append(acc.checks,
                             Check(SecurityHeaderCheckId(i), SecurityHeaderNames[i],
                                   "warning", "low", "")),
                      Append(acc.recommendations, Rec(AddHeaderRecId(i), "low")),
                      acc.vulnerabilities))

checkHttpSecurity(srv, n) ==
    IF IsWebSocket(srv) THEN NoFindings
    ELSE LET response == n.http
         IN  IF ~response.ok
             THEN Findings(
                      << Check("http-security-check-error", "HTTP Security Check",
                               "error", "low", ErrorMessage) >>,
                      << >>, << >>)
             ELSE LET hdrs == HeaderLoop(1, response, NoFindings)
                  IN  IF "server" \in response.headers
                      THEN Findings(
                               Append(hdrs.checks,
                                      Check("server-header-disclosure",
                                            "Server Information Disclosure",
                                            "warning", "low", "Server:")),
                               Append(hdrs.recommendations,
                                      Rec("hide-server-header", "low")),
                               hdrs.vulnerabilities)
                      ELSE hdrs

(***************************************************************************)
(* Probe 4: checkAPIEndpoints.  n.api[i] answers the GET of Endpoints[i].  *)
(***************************************************************************)
\* The body of one for-iteration, once the GET of Endpoints[i] has settled:
\* the inner try block for a response, the empty inner catch for a failure
EndpointIteration(i, response, acc) ==
    IF response.ok /\ response.status = 200
    THEN Findings(
             Append(acc.checks,
                    Check(EndpointCheckId(i), Endpoints[i], "pass", "info", "")),
             acc.recommendations,
             IF response.sensitive
             THEN Append(acc.vulnerabilities, Vuln(SensitiveInfoId(i), "medium"))
             ELSE acc.vulnerabilities)
    ELSE acc

\* A loop that a failed request leaves (the failure reaches the outer catch)
NextEndpointStopOnError(i, response) ==
    IF response.ok THEN i + 1 ELSE Len(Endpoints) + 1

\* The index of the iteration that follows iteration i: the inner catch
\* swallows a failure, so the for-of loop goes on to the next path
NextEndpoint(i, response) == i + 1

\* for (const endpoint of endpoints) { try {...} catch { /* ignore */ } }
RECURSIVE EndpointLoop(_, _, _)
EndpointLoop(i, n, acc) ==
    IF i > Len(Endpoints) THEN acc
    ELSE EndpointLoop(NextEndpoint(i, n.api[i]), n,
                      EndpointIteration(i, n.api[i], acc))

\* server.endpoint.replace(/\/$/, '') cannot throw for a string endpoint, so
\* the outer catch (api-endpoints-check-error) is not reached by a record.
checkAPIEndpoints(srv, n) == EndpointLoop(1, n, NoFindings)

(***************************************************************************)
(* Probe 5: checkRateLimit.  srv.metadata is "absent" (no metadata bag),   *)
(* "empty" (a bag without rateLimit) or "rateLimit".                       *)
(***************************************************************************)
\* A probe that stays silent when no policy is declared
checkRateLimitDeclaredOnly(srv, n) ==
    IF srv.metadata = "rateLimit"
    THEN Findings(
             << Check("rate-limit-configured", "Rate Limiting", "pass", "medium",
                      "") >>,
             << >>, << >>)
    ELSE NoFindings

\* A probe that believes the declared policy only if the endpoint answers
checkRateLimitIfReachable(srv, n) ==
    IF srv.metadata = "rateLimit" /\ n.reach.ok
    THEN Findings(
             << Check("rate-limit-configured", "Rate Limiting", "pass", "medium",
                      "") >>,
             << >>, << >>)
    ELSE Findings(
             << Check("rate-limit-configured", "Rate Limiting", "warning", "low",
                      "") >>,
             << Rec("implement-rate-limiting", "low") >>,
             << >>)

checkRateLimit(srv, n) ==
    IF srv.metadata = "rateLimit"
    THEN Findings(
             << Check("rate-limit-configured", "Rate Limiting", "pass", "medium",
                      "") >>,
             << >>, << >>)
    ELSE Findings(
             << Check("rate-limit-configured", "Rate Limiting", "warning", "low",
                      "") >>,
             << Rec("implement-rate-limiting", "low") >>,
             << >>)

(***************************************************************************)
(* Probe 6: checkCORSConfiguration.  acao is "absent", "empty" (a header   *)
(* with an empty value), "*" or "origin" (a specific origin).              *)
(***************************************************************************)
\* A probe without the early return for WebSocket servers
checkCORSConfigurationAnyProtocol(srv, n) ==
    LET response == n.cors
    IN  IF ~response.ok
        THEN Findings(
                 << Check("cors-check-error", "CORS Configuration Check",
                          "error", "low", ErrorMessage) >>,
                 << >>, << >>)
        ELSE IF response.acao = "*"
        THEN Findings(
                 << Check("cors-wildcard", "CORS Configuration", "warning",
                          "medium", "Access-Control-Allow-Origin: *") >>,
                 << Rec("restrict-cors-origins", "medium") >>,
                 << >>)
        ELSE IF response.acao = "origin"
        THEN Findings(
                 << Check("cors-configured", "CORS Configuration", "pass",
                          "low", "") >>,
                 << >>, << >>)
        ELSE NoFindings

checkCORSConfiguration(srv, n) ==
    IF IsWebSocket(srv) THEN NoFindings
    ELSE LET response == n.cors
         IN  IF ~response.ok
             THEN Findings(
                      << Check("cors-check-error", "CORS Configuration Check",
                               "error", "low", ErrorMessage) >>,
                      << >>, << >>)
             ELSE IF response.acao = "*"
             THEN Findings(
                      << Check("cors-wildcard", "CORS Configuration", "warning",
                               "medium", "Access-Control-Allow-Origin: *") >>,
                      << Rec("restrict-cors-origins", "medium") >>,
                      << >>)
             ELSE IF response.acao = "origin"
             THEN Findings(
                      << Check("cors-configured", "CORS Configuration", "pass",
                               "low", "") >>,
                      << >>, << >>)
             ELSE NoFindings

(***************************************************************************)
(* Probe 7: checkSecurityHeaders (reserved).                               *)
(***************************************************************************)
checkSecurityHeaders(srv, n) == NoFindings

(***************************************************************************)
(* Probe Runner and Analyzer: SecurityAnalyzer.analyzeServer.              *)
(***************************************************************************)
\* Index of each probe in the array handed to Promise.allSettled
Probes == 0 .. 7

RunProbe(p, srv, n) ==
    CASE p = 0 -> checkEndpointAvailability(srv, n)
      [] p = 1 -> checkSSLConfiguration(srv, n)
      [] p = 2 -> checkAuthentication(srv, n)
      [] p = 3 -> checkHttpSecurity(srv, n)
      [] p = 4 -> checkAPIEndpoints(srv, n)
      [] p = 5 -> checkRateLimit(srv, n)
      [] p = 6 -> checkCORSConfiguration(srv, n)
      [] p = 7 -> checkSecurityHeaders(srv, n)

\* An async method that reaches no await returns a promise that is already
\* settled: checkRateLimit and checkSecurityHeaders always, the TLS probe
\* when it returns or throws before getCertificateInfo, the two HTTP-only
\* probes on a WebSocket server.
SettlesAtLaunch(p, srv) ==
    \/ p = 5
    \/ p = 7
    \/ p = 1 /\ (srv.protocol \notin {"https", "wss"} \/ srv.endpoint = "empty")
    \/ p \in {3, 6} /\ IsWebSocket(srv)

\* How the promise of probe p settles
ProbeSettles(p, faults) == IF p \in faults THEN "rejected" ELSE "fulfilled"

\* What the promise of probe p fulfils with
ProbeValue(p, srv, n, faults) ==
    IF p \in faults THEN NoFindings ELSE RunProbe(p, srv, n)

\* A join that rejects with the first rejection (Promise.all)
AwaitAll(ps) ==
    IF \E p \in Probes : ps[p] = "rejected" THEN "rejected"
    ELSE IF \E p \in Probes : ps[p] = "pending" THEN "pending"
    ELSE "fulfilled"

\* await Promise.allSettled([...]): pending until every promise has settled,
\* then fulfilled, whatever the outcomes
AwaitProbes(ps) ==
    IF \E p \in Probes : ps[p] = "pending" THEN "pending" ELSE "fulfilled"

\* A merge that stops at the first rejected entry
RECURSIVE MergeUntilRejected(_, _, _, _)
MergeUntilRejected(index, ps, po, acc) ==
    IF index > 7 \/ ps[index] = "rejected" THEN acc
    ELSE MergeUntilRejected(index + 1, ps, po,
             [checks          |-> acc.checks \o po[index].checks,
              recommendations |-> acc.recommendations \o po[index].recommendations,
              vulnerabilities |-> acc.vulnerabilities \o po[index].vulnerabilities,
              warned          |-> acc.warned])

\* A merge that puts each fulfilled entry in front of the earlier ones
RECURSIVE MergeLatestFirst(_, _, _, _)
MergeLatestFirst(index, ps, po, acc) ==
    IF index > 7 THEN acc
    ELSE MergeLatestFirst(index + 1, ps, po,
             IF ps[index] = "fulfilled"
             THEN [checks          |-> po[index].checks \o acc.checks,
                   recommendations |-> po[index].recommendations
                                         \o acc.recommendations,
                   vulnerabilities |-> po[index].vulnerabilities
                                         \o acc.vulnerabilities,
                   warned          |-> acc.warned]
             ELSE IF ps[index] = "rejected"
             THEN [acc EXCEPT !.warned = Append(@, index)]
             ELSE acc)

\* checkResults.forEach((result, index) => ...), from entry index on
RECURSIVE MergeLoop(_, _, _, _)
MergeLoop(index, ps, po, acc) ==
    IF index > 7 THEN acc
    ELSE MergeLoop(index + 1, ps, po,
             IF ps[index] = "fulfilled"
             THEN [checks          |-> acc.checks \o po[index].checks,
                   recommendations |-> acc.recommendations
                                         \o po[index].recommendations,
                   vulnerabilities |-> acc.vulnerabilities
                                         \o po[index].vulnerabilities,
                   warned          |-> acc.warned]
             ELSE IF ps[index] = "rejected"
             THEN [acc EXCEPT !.warned = Append(@, index)]
             ELSE acc)

NoMerge ==
    [checks |-> << >>, recommendations |-> << >>, vulnerabilities |-> << >>,
     warned |-> << >>]

\* A result whose grade also counts the vulnerabilities against the server
PenalisedResult(srv, checks, recommendations, vulnerabilities) ==
    [serverId        |-> srv.id,
     endpoint        |-> srv.endpoint,
     overallScore    |-> IF vulnerabilities = << >>
                         THEN calculateSecurityScore(checks) ELSE "F",
     checks          |-> checks,
     recommendations |-> recommendations,
     vulnerabilities |-> vulnerabilities]

\* Lines 184-196: the score of the checks, and the result object
AnalysisResult(srv, checks, recommendations, vulnerabilities) ==
    [serverId        |-> srv.id,
     endpoint        |-> srv.endpoint,
     overallScore    |-> calculateSecurityScore(checks),
     checks          |-> checks,
     recommendations |-> recommendations,
     vulnerabilities |-> vulnerabilities]

NoResult ==
    [serverId |-> 0, endpoint |-> "", overallScore |-> "", checks |-> << >>,
     recommendations |-> << >>, vulnerabilities |-> << >>]

NoError == [name |-> "", server |-> 0, cause |-> ""]

\* class SecurityAnalysisError: details = { server, error }
SecurityAnalysisError(srv, cause) ==
    [name |-> "SecurityAnalysisError", server |-> srv.id, cause |-> cause]

NoOutcome == [status |-> "none", value |-> NoResult, error |-> NoError,
              warned |-> << >>]

\* The body of analyzeServer once the join has settled as `joined`: the try
\* block (merge, score, result) or, if it raised, the catch block.
AnalyzeOutcome(srv, joined, ps, po, fault) ==
    IF joined = "rejected"
    THEN [status |-> "rejected", value |-> NoResult,
          error |-> SecurityAnalysisError(srv, "probe rejection"),
          warned |-> << >>]
    ELSE IF fault
    THEN [status |-> "rejected", value |-> NoResult,
          error |-> SecurityAnalysisError(srv, "exception"),
          warned |-> << >>]
    ELSE LET merged == MergeLoop(0, ps, po, NoMerge)
         IN  [status |-> "fulfilled",
              value  |-> AnalysisResult(srv, merged.checks,
                                        merged.recommendations,
                                        merged.vulnerabilities),
              error  |-> NoError,
              warned |-> merged.warned]

(***************************************************************************)
(* Inputs of one analysis: the server record, the network's answers, and   *)
(* the exceptions raised while it runs.  A probe of probeFault raises past *)
(* its own try/catch, which rejects its promise (the 'rejected' branch of  *)
(* line 179); tryFault is an exception inside the try block of lines       *)
(* 160-196, which the catch of line 197 turns into a SecurityAnalysisError.*)
(* No record object makes either happen by itself: every probe wraps its   *)
(* requests in try/catch, and nothing after the join throws.               *)
(***************************************************************************)
\* MCPServer: endpoint is "url" (a well-formed URI) or "empty" ('')
Servers ==
    [id : {1}, protocol : Protocols, endpoint : {"url", "empty"},
     metadata : {"absent", "empty", "rateLimit"}]

NoServer == [id |-> 0, protocol |-> "", endpoint |-> "", metadata |-> ""]

\* No listener anywhere: every request and every connect fails
AllDown ==
    [reach |-> Fail, ws |-> "error",
     cert  |-> [kind |-> "error", now |-> 0, validFrom |-> 0, validTo |-> 0,
                tls |-> "none"],
     auth  |-> Fail, http |-> Fail, api |-> [i \in 1 .. 8 |-> Fail],
     cors  |-> Fail]

\* A hardened server: 200, auth demanded on a second look, all headers set
Healthy ==
    [reach |-> Response(200, {}, "absent", FALSE), ws |-> "open",
     cert  |-> [kind |-> "cert", now |-> 0, validFrom |-> -100, validTo |-> 300,
                tls |-> "TLSv1.3"],
     auth  |-> Response(401, {"www-authenticate"}, "absent", FALSE),
     http  |-> Response(200,
                   {"strict-transport-security", "x-content-type-options",
                    "x-frame-options", "x-xss-protection",
                    "content-security-policy"}, "absent", FALSE),
     api   |-> [i \in 1 .. 8 |-> Response(404, {}, "absent", FALSE)],
     cors  |-> Response(204, {}, "origin", FALSE)]

\* An open server: no auth, no headers, wildcard CORS, chatty endpoints, a
\* certificate that has expired; the WebSocket connect times out
Exposed ==
    [reach |-> Response(200, {}, "absent", FALSE), ws |-> "timeout",
     cert  |-> [kind |-> "cert", now |-> 0, validFrom |-> -400, validTo |-> -10,
                tls |-> "TLSv1"],
     auth  |-> Response(200, {}, "absent", FALSE),
     http  |-> Response(200, {"server"}, "absent", FALSE),
     api   |-> [i \in 1 .. 8 |->
                   Response(200, {}, "absent", i \in {1, 2})],
     cors  |-> Response(200, {}, "*", FALSE)]

\* A server that accepts connections and then stalls on some of them: the
\* reachability request, the TLS and WebSocket connects and the enumeration
\* requests run into the 10 s timeout, the other requests are answered.
Stalled ==
    [Healthy EXCEPT !.reach = TimedOut, !.ws = "timeout",
                    !.cert = [@ EXCEPT !.kind = "timeout",
                                               !.tls = "none"],
                    !.api = [i \in 1 .. 8 |-> TimedOut]]

NetScenarios == {AllDown, Healthy, Exposed, Stalled}

NoNet == [reach |-> Fail, ws |-> "", cert |-> [kind |-> ""], auth |-> Fail,
          http |-> Fail, api |-> << >>, cors |-> Fail]

FaultSets == {f \in SUBSET Probes : Cardinality(f) <= MaxFaults}

(***************************************************************************)
(* The idle values: each specification pins the variables of the others.   *)
(***************************************************************************)
ProbeIdle ==
    /\ unitPc = "idle"
    /\ unitProbe = 0
    /\ unitServer = NoServer
    /\ unitNet = NoNet
    /\ unitOut = NoFindings

SummaryIdle ==
    /\ sumPc = "idle"
    /\ resultsGiven = << >>
    /\ resultsIn = << >>
    /\ summary = NoSummary

\* The promise of getCertificateInfo before resolve or reject was called
Pending == [status |-> "pending", kind |-> "none"]

DiscoveryIdle ==
    /\ discPc = "idle"
    /\ config = [sources |-> << >>, maxConcurrent |-> 0]
    /\ batches = << >>
    /\ chunkI = 0
    /\ batchNo = 0
    /\ lookupState = << >>
    /\ discResults = << >>
    /\ discLog = << >>
    /\ inFlight = 0

EnumIdle ==
    /\ enumPc = "idle"
    /\ enumNet = << >>
    /\ enumI = 0
    /\ enumLog = << >>
    /\ enumOut = NoFindings

CertIdle ==
    /\ certPc = "idle"
    /\ certServer = NoServer
    /\ certPeer = [kind |-> ""]
    /\ socket = "none"
    /\ timer = "none"
    /\ certPromise = Pending
    /\ certSettles = 0
    /\ certLog = << >>
    /\ tlsOut = NoFindings

(***************************************************************************)
(* Spec: one analyzeServer call.                                           *)
(***************************************************************************)
AnalyzeIdle ==
    /\ server = NoServer
    /\ net = NoNet
    /\ probeFault = {}
    /\ tryFault = FALSE
    /\ pc = "idle"
    /\ probeState = [p \in Probes |-> "idle"]
    /\ probeOut = [p \in Probes |-> NoFindings]
    /\ warnLog = << >>
    /\ result = NoOutcome

ScoreIdle ==
    /\ scorePc = "idle"
    /\ checksIn = << >>
    /\ vulnsIn = << >>
    /\ scoreAcc = ZeroScore
    /\ scoreResult = NoResult

OverallIdle ==
    /\ aggPc = "idle"
    /\ scoresIn = << >>
    /\ overallScore = ""

AuditIdle ==
    /\ auditPc = "idle"
    /\ discovery = [status |-> "none", results |-> << >>]
    /\ allServers = << >>
    /\ cbState = << >>
    /\ analysisResults = << >>
    /\ errorLog = << >>
    /\ auditEnv = << >>
    /\ settleOrder = << >>
    /\ returned = << >>

Init ==
    /\ server \in Servers
    /\ net \in NetScenarios
    /\ probeFault \in FaultSets
    /\ tryFault \in BOOLEAN
    /\ tryFault => probeFault = {}
    /\ pc = "start"
    /\ probeState = [p \in Probes |-> "idle"]
    /\ probeOut = [p \in Probes |-> NoFindings]
    /\ warnLog = << >>
    /\ result = NoOutcome
    /\ ScoreIdle
    /\ OverallIdle
    /\ AuditIdle
    /\ ProbeIdle
    /\ SummaryIdle
    /\ DiscoveryIdle
    /\ EnumIdle
    /\ CertIdle

\* Lines 162-171: the eight probe methods are called one after another; each
\* runs to its first await, and the array of promises goes to allSettled.
Launch ==
    /\ pc = "start"
    /\ pc' = "awaiting"
    /\ probeState' =
           [p \in Probes |->
               IF SettlesAtLaunch(p, server) THEN ProbeSettles(p, probeFault)
               ELSE "pending"]
    /\ probeOut' =
           [p \in Probes |->
               IF SettlesAtLaunch(p, server)
               THEN ProbeValue(p, server, net, probeFault)
               ELSE NoFindings]
    /\ UNCHANGED << server, net, probeFault, tryFault, warnLog, result >>
    /\ UNCHANGED << scoreVars, overallVars, auditVars >>
    /\ UNCHANGED << probeVars, summaryVars, discVars >>
    /\ UNCHANGED << enumVars, certVars >>

\* The network operation of probe p completes and its promise settles.
Settle(p) ==
    /\ pc = "awaiting"
    /\ probeState[p] = "pending"
    /\ probeState' = [probeState EXCEPT ![p] = ProbeSettles(p, probeFault)]
    /\ probeOut' = [probeOut EXCEPT ![p] = ProbeValue(p, server, net, probeFault)]
    /\ UNCHANGED << server, net, probeFault, tryFault, pc, warnLog, result >>
    /\ UNCHANGED << scoreVars, overallVars, auditVars >>
    /\ UNCHANGED << probeVars, summaryVars, discVars >>
    /\ UNCHANGED << enumVars, certVars >>

\* The await of line 162 resumes; the rest of analyzeServer runs.
Join ==
    /\ pc = "awaiting"
    /\ AwaitProbes(probeState) # "pending"
    /\ LET outcome == AnalyzeOutcome(server, AwaitProbes(probeState),
                                     probeState, probeOut, tryFault)
       IN  /\ result' = outcome
           /\ warnLog' = outcome.warned
           /\ pc' = IF outcome.status = "fulfilled" THEN "done" ELSE "rejected"
    /\ UNCHANGED << server, net, probeFault, tryFault, probeState, probeOut >>
    /\ UNCHANGED << scoreVars, overallVars, auditVars >>
    /\ UNCHANGED << probeVars, summaryVars, discVars >>
    /\ UNCHANGED << enumVars, certVars >>

Next ==
    \/ Launch
    \/ \E p \in Probes : Settle(p)
    \/ Join

Spec == Init /\ [][Next]_vars

(***************************************************************************)
(* SpecScore: calculateSecurityScore on a drawn checks collection, as      *)
(* analyzeServer applies it to the merged checks (lines 184-196).          *)
(***************************************************************************)
SeqsUpTo(S, n) == UNION {[1 .. k -> S] : k \in 0 .. n}

InputChecks ==
    {Check("input", "input", st, sv, "") : st \in CheckStatuses, sv \in AnySeverity}

InitScore ==
    /\ scorePc = "input"
    /\ checksIn \in SeqsUpTo(InputChecks, MaxChecks)
    /\ vulnsIn \in {<< >>, << Vuln("input", "critical") >>}
    /\ scoreAcc = ZeroScore
    /\ scoreResult = NoResult
    /\ AnalyzeIdle
    /\ OverallIdle
    /\ AuditIdle
    /\ ProbeIdle
    /\ SummaryIdle
    /\ DiscoveryIdle
    /\ EnumIdle
    /\ CertIdle

ScoreChecks ==
    /\ scorePc = "input"
    /\ scorePc' = "scored"
    /\ scoreAcc' = ScoreLoop(checksIn, ZeroScore)
    /\ scoreResult' = AnalysisResult(NoServer, checksIn, << >>, vulnsIn)
    /\ UNCHANGED << checksIn, vulnsIn >>
    /\ UNCHANGED << analyzeVars, overallVars, auditVars >>
    /\ UNCHANGED << probeVars, summaryVars, discVars >>
    /\ UNCHANGED << enumVars, certVars >>

NextScore == ScoreChecks

SpecScore == InitScore /\ [][NextScore]_vars

(***************************************************************************)
(* SpecOverall: calculateOverallScore on a drawn collection of grades.     *)
(***************************************************************************)
InitOverall ==
    /\ aggPc = "input"
    /\ scoresIn \in SeqsUpTo(SecurityScores, MaxScores)
    /\ overallScore = ""
    /\ AnalyzeIdle
    /\ ScoreIdle
    /\ AuditIdle
    /\ ProbeIdle
    /\ SummaryIdle
    /\ DiscoveryIdle
    /\ EnumIdle
    /\ CertIdle

Aggregate ==
    /\ aggPc = "input"
    /\ aggPc' = "done"
    /\ overallScore' = calculateOverallScore(scoresIn)
    /\ UNCHANGED scoresIn
    /\ UNCHANGED << analyzeVars, scoreVars, auditVars >>
    /\ UNCHANGED << probeVars, summaryVars, discVars >>
    /\ UNCHANGED << enumVars, certVars >>

NextOverall == Aggregate

SpecOverall == InitOverall /\ [][NextOverall]_vars

(***************************************************************************)
(* SpecProbe: one probe method, called with a drawn server record while    *)
(* the network answers its requests in one of the ways below.  The fields  *)
(* of the network that the probe does not read are those of Healthy.       *)
(***************************************************************************)
\* response.status values that fall in each branch of the probes
StatusCodes == {100, 200, 204, 301, 401, 403, 404, 500}

\* Certificate dates, in days relative to now = 0
CertDays == {-40, -1, 0, 1, 29, 30, 31, 60}

ReachAnswers ==
    {Fail, TimedOut}
      \cup {Response(st, {}, "absent", FALSE) : st \in StatusCodes}

WsAnswers == {"open", "error", "timeout"}

CertAnswers ==
    [kind : {"cert"}, now : {0}, validFrom : CertDays, validTo : CertDays,
     tls : TlsVersions]
      \cup [kind : {"empty"}, now : {0}, validFrom : {0}, validTo : {0},
            tls : TlsVersions]
      \cup [kind : {"error", "timeout"}, now : {0}, validFrom : {0},
            validTo : {0}, tls : {"none"}]

AuthAnswers ==
    {Fail, TimedOut}
      \cup {Response(st, h, "absent", FALSE) :
               st \in {200, 401, 403, 404},
               h \in SUBSET {"www-authenticate", "authorization"}}

HttpAnswers ==
    {Fail, TimedOut}
      \cup {Response(200, h, "absent", FALSE) :
               h \in SUBSET (Range(SecurityHeaders) \cup {"server"})}

\* What one GET of the enumeration is answered with
PathAnswers ==
    {Fail, TimedOut, Response(200, {}, "absent", FALSE),
     Response(200, {}, "absent", TRUE), Response(404, {}, "absent", FALSE)}

\* The eight paths answer alike, but for at most one of them
ApiAnswers ==
    {[i \in 1 .. 8 |-> IF i = k THEN a ELSE b] :
        k \in 1 .. 8, a \in PathAnswers, b \in PathAnswers}

CorsAnswers ==
    {Fail, TimedOut}
      \cup {Response(st, {}, acao, FALSE) :
               st \in {200, 204}, acao \in {"absent", "empty", "*", "origin"}}

\* The networks probe p is called in
UnitNets(p) ==
    CASE p = 0 -> {[Healthy EXCEPT !.reach = r, !.ws = w] :
                      r \in ReachAnswers, w \in WsAnswers}
      [] p = 1 -> {[Healthy EXCEPT !.cert = c] : c \in CertAnswers}
      [] p = 2 -> {[Healthy EXCEPT !.auth = r] : r \in AuthAnswers}
      [] p = 3 -> {[Healthy EXCEPT !.http = r] : r \in HttpAnswers}
      [] p = 4 -> {[Healthy EXCEPT !.api = a] : a \in ApiAnswers}
      [] p = 6 -> {[Healthy EXCEPT !.cors = r] : r \in CorsAnswers}
      [] OTHER -> {Healthy, AllDown, Exposed}

InitProbe ==
    /\ unitPc = "start"
    /\ unitProbe \in Probes
    /\ unitServer \in Servers
    /\ unitNet \in UnitNets(unitProbe)
    /\ unitOut = NoFindings
    /\ AnalyzeIdle
    /\ ScoreIdle
    /\ OverallIdle
    /\ AuditIdle
    /\ SummaryIdle
    /\ DiscoveryIdle
    /\ EnumIdle
    /\ CertIdle

\* The probe method runs to its return statement: each of the eight returns
\* { checks, recommendations, vulnerabilities } on every path through it.
CallProbe ==
    /\ unitPc = "start"
    /\ unitPc' = "returned"
    /\ unitOut' = RunProbe(unitProbe, unitServer, unitNet)
    /\ UNCHANGED << unitProbe, unitServer, unitNet >>
    /\ UNCHANGED << analyzeVars, scoreVars, overallVars, auditVars,
                    summaryVars, discVars >>
    /\ UNCHANGED << enumVars, certVars >>

NextProbe == CallProbe

SpecProbe == InitProbe /\ [][NextProbe]_vars

(***************************************************************************)
(* Audit Orchestrator: MCPSecurityAuditor.performAudit.                    *)
(***************************************************************************)
\* One analyzeServer call from launch to settlement, for the audit, whose
\* callbacks see only the settled promise.
analyzeServer(srv, env) ==
    LET ps == [p \in Probes |-> ProbeSettles(p, env.probeFault)]
        po == [p \in Probes |-> ProbeValue(p, srv, env.net, env.probeFault)]
    IN  AnalyzeOutcome(srv, AwaitProbes(ps), ps, po, env.tryFault)

\* discoveryResults.flatMap(result => result.servers)
RECURSIVE FlatMapServers(_)
FlatMapServers(results) ==
    IF results = << >> THEN << >>
    ELSE Head(results).servers \o FlatMapServers(Tail(results))

\* Lines 58-66: what the map callback does when its analyzeServer settles:
\* push the result, or log the failure and return null
CallbackOnSettle(outcome, srv, results, log) ==
    IF outcome.status = "fulfilled"
    THEN [results |-> Append(results, outcome.value), log |-> log]
    ELSE [results |-> results, log |-> Append(log, srv.id)]

\* A join that resumes with the first callback to settle (Promise.race)
AuditJoinFirst(cb) == \E i \in DOMAIN cb : cb[i] = "settled"

\* Line 69: await Promise.allSettled(analysisPromises)
AuditJoinReady(cb) == \A i \in DOMAIN cb : cb[i] = "settled"

\* What one discovered server brings to an audit: its record fields, the
\* network around it, and the faults raised while it is analysed.
Scenario(protocol, endpoint, metadata, n, faults, tf) ==
    [protocol |-> protocol, endpoint |-> endpoint, metadata |-> metadata,
     net |-> n, probeFault |-> faults, tryFault |-> tf]

AuditScenarios ==
    { Scenario("http", "url", "rateLimit", AllDown, {}, FALSE),
      Scenario("https", "url", "absent", Healthy, {}, FALSE),
      Scenario("http", "empty", "empty", AllDown, {}, FALSE),
      Scenario("https", "url", "rateLimit", Healthy, {}, TRUE),
      Scenario("http", "url", "empty", Exposed, {}, FALSE),
      Scenario("ws", "url", "absent", Healthy, {0}, FALSE) }

\* The server records of a scenario sequence, ids in discovery order
ServersOf(scn) ==
    [i \in 1 .. Len(scn) |->
        [id |-> i, protocol |-> scn[i].protocol, endpoint |-> scn[i].endpoint,
         metadata |-> scn[i].metadata]]

EnvOf(scn) ==
    [i \in 1 .. Len(scn) |->
        [net |-> scn[i].net, probeFault |-> scn[i].probeFault,
         tryFault |-> scn[i].tryFault]]

\* DiscoveryResult[]: two sources, the servers split between them
DiscoveryResultsOf(srvs) ==
    LET k == Len(srvs) \div 2
    IN  << [source |-> "local", servers |-> SubSeq(srvs, 1, k), errors |-> << >>],
           [source |-> "api", servers |-> SubSeq(srvs, k + 1, Len(srvs)),
            errors |-> << >>] >>

InitAudit ==
    /\ auditPc = "start"
    /\ \E scn \in SeqsUpTo(AuditScenarios, MaxServers) :
           /\ auditEnv = EnvOf(scn)
           /\ \/ discovery = [status  |-> "fulfilled",
                              results |-> DiscoveryResultsOf(ServersOf(scn))]
              \/ /\ scn = << >>
                 /\ discovery = [status |-> "rejected", results |-> << >>]
    /\ allServers = << >>
    /\ cbState = << >>
    /\ analysisResults = << >>
    /\ errorLog = << >>
    /\ settleOrder = << >>
    /\ returned = << >>
    /\ AnalyzeIdle
    /\ ScoreIdle
    /\ OverallIdle
    /\ ProbeIdle
    /\ SummaryIdle
    /\ DiscoveryIdle
    /\ EnumIdle
    /\ CertIdle

\* Lines 43-51 and 74-77: discoverServers rejected (the outer catch logs and
\* rethrows), or it found no server (performAudit returns []).
DiscoverNothing ==
    /\ auditPc = "start"
    /\ \/ /\ discovery.status = "rejected"
          /\ auditPc' = "rejected"
       \/ /\ discovery.status = "fulfilled"
          /\ FlatMapServers(discovery.results) = << >>
          /\ auditPc' = "returned"
    /\ returned' = << >>
    /\ UNCHANGED << discovery, allServers, cbState, analysisResults, errorLog,
                    auditEnv, settleOrder >>
    /\ UNCHANGED << analyzeVars, scoreVars, overallVars >>
    /\ UNCHANGED << probeVars, summaryVars, discVars >>
    /\ UNCHANGED << enumVars, certVars >>

\* Lines 43-57: discovery fulfilled with servers; allServers.map starts one
\* callback per server, each of which calls analyzeServer and awaits it.
StartAnalyses ==
    /\ auditPc = "start"
    /\ discovery.status = "fulfilled"
    /\ FlatMapServers(discovery.results) # << >>
    /\ allServers' = FlatMapServers(discovery.results)
    /\ cbState' = [i \in 1 .. Len(allServers') |-> "pending"]
    /\ auditPc' = "awaiting"
    /\ UNCHANGED << discovery, analysisResults, errorLog, auditEnv, settleOrder,
                    returned >>
    /\ UNCHANGED << analyzeVars, scoreVars, overallVars >>
    /\ UNCHANGED << probeVars, summaryVars, discVars >>
    /\ UNCHANGED << enumVars, certVars >>

\* Lines 60-66: the analysis of server i settles and its callback resumes.
AnalysisSettles(i) ==
    /\ auditPc = "awaiting"
    /\ i \in DOMAIN cbState
    /\ cbState[i] = "pending"
    /\ LET outcome == analyzeServer(allServers[i], auditEnv[i])
           after   == CallbackOnSettle(outcome, allServers[i], analysisResults,
                                       errorLog)
       IN  /\ analysisResults' = after.results
           /\ errorLog' = after.log
    /\ cbState' = [cbState EXCEPT ![i] = "settled"]
    /\ settleOrder' = Append(settleOrder, i)
    /\ UNCHANGED << auditPc, discovery, allServers, auditEnv, returned >>
    /\ UNCHANGED << analyzeVars, scoreVars, overallVars >>
    /\ UNCHANGED << probeVars, summaryVars, discVars >>
    /\ UNCHANGED << enumVars, certVars >>

\* Lines 69-73: the join resumes and performAudit returns analysisResults.
AuditReturn ==
    /\ auditPc = "awaiting"
    /\ AuditJoinReady(cbState)
    /\ returned' = analysisResults
    /\ auditPc' = "returned"
    /\ UNCHANGED << discovery, allServers, cbState, analysisResults, errorLog,
                    auditEnv, settleOrder >>
    /\ UNCHANGED << analyzeVars, scoreVars, overallVars >>
    /\ UNCHANGED << probeVars, summaryVars, discVars >>
    /\ UNCHANGED << enumVars, certVars >>

NextAudit ==
    \/ DiscoverNothing
    \/ StartAnalyses
    \/ \E i \in DOMAIN cbState : AnalysisSettles(i)
    \/ AuditReturn

SpecAudit == InitAudit /\ [][NextAudit]_vars

(***************************************************************************)
(* Discovery: DiscoveryService.discoverServers, and what performAudit does *)
(* with its result.  A source is its type, its enabled flag and what its   *)
(* lookup meets:                                                           *)
(*   config  "ok", or "missing" (no config object; for api also no url)    *)
(*   io      "ok", or "fails" (the request, the response shape, the file   *)
(*           system)                                                       *)
(*   found   how many servers the lookup finds when nothing fails          *)
(*   fault   discoverFromSource raises past its own try/catch              *)
(***************************************************************************)
defaultMaxConcurrent == 5

Source(type, enabled, cfg, io, found, fault) ==
    [type |-> type, enabled |-> enabled, config |-> cfg, io |-> io,
     found |-> found, fault |-> fault]

\* The servers a lookup returns: `found` records of that source
FoundServers(source, found) ==
    [j \in 1 .. found |-> [source |-> source.type, n |-> j]]

Returns(servers) == [status |-> "returns", servers |-> servers]
Throws == [status |-> "throws", servers |-> << >>]

\* The awaited call of the switch in discoverFromSource.  discoverLocalServers
\* and discoverFromVSCode catch every file-system error themselves and return
\* what they have; discoverFromRegistry and discoverFromAPI rethrow a failed
\* request or a malformed response as DiscoveryError; the default branch
\* throws for an unknown type.
Lookup(source) ==
    CASE source.type = "local" ->
             IF source.config = "missing" THEN Throws
             ELSE Returns(FoundServers(source,
                      IF source.io = "ok" THEN source.found ELSE 0))
      [] source.type = "registry" ->
             IF source.config = "missing" \/ source.io = "fails" THEN Throws
             ELSE Returns(FoundServers(source, source.found))
      [] source.type = "api" ->
             IF source.config = "missing" \/ source.io = "fails" THEN Throws
             ELSE Returns(FoundServers(source, source.found))
      [] source.type = "vscode" ->
             Returns(FoundServers(source,
                 IF source.io = "ok" THEN source.found ELSE 0))
      [] OTHER -> Throws

\* interface DiscoveryResult: source, servers, errors
DiscoveryResult(type, servers, errors) ==
    [source |-> type, servers |-> servers, errors |-> errors]

\* discoverFromSource: the try block's result, or the catch block's
discoverFromSource(source) ==
    LET looked == Lookup(source)
    IN  IF looked.status = "throws"
        THEN DiscoveryResult(source.type, << >>, << ErrorMessage >>)
        ELSE DiscoveryResult(source.type, looked.servers, << >>)

\* A lookup that reaches no await settles while the batch is being mapped
LookupSettlesAtLaunch(source) ==
    \/ source.type \notin {"local", "registry", "api", "vscode"}
    \/ source.config = "missing" /\ source.type # "vscode"

\* How the promise of discoverFromSource settles
SourceSettles(source) == IF source.fault THEN "rejected" ELSE "fulfilled"

\* config.sources.filter(source => source.enabled), as indexes into
\* config.sources
RECURSIVE FilterEnabled(_, _)
FilterEnabled(sources, i) ==
    IF i > Len(sources) THEN << >>
    ELSE (IF sources[i].enabled THEN << i >> ELSE << >>)
           \o FilterEnabled(sources, i + 1)

enabledSources(cfg) == FilterEnabled(cfg.sources, 1)

\* config.maxConcurrent || this.defaultMaxConcurrent: 0 stands for every
\* falsy value (absent, 0, NaN)
maxConcurrent(cfg) ==
    IF cfg.maxConcurrent = 0 THEN defaultMaxConcurrent ELSE cfg.maxConcurrent

\* Array.prototype.slice(start, end), negative indexes counting from the end
Slice(array, start, end) ==
    LET n    == Len(array)
        from == IF start < 0 THEN (IF n + start > 0 THEN n + start ELSE 0)
                ELSE (IF start < n THEN start ELSE n)
        to   == IF end < 0 THEN (IF n + end > 0 THEN n + end ELSE 0)
                ELSE (IF end < n THEN end ELSE n)
    IN  IF from >= to THEN << >> ELSE SubSeq(array, from + 1, to)

\* A join that rejects with the first rejected lookup (Promise.all)
BatchAll(batch, ls) ==
    IF \E i \in Range(batch) : ls[i] = "rejected" THEN "rejected"
    ELSE IF \E i \in Range(batch) : ls[i] = "pending" THEN "pending"
    ELSE "fulfilled"

\* await Promise.allSettled(batchPromises)
BatchSettled(batch, ls) ==
    IF \E i \in Range(batch) : ls[i] = "pending" THEN "pending" ELSE "fulfilled"

\* batchResults.forEach((result, index) => ...): the value of a fulfilled
\* entry, or a result made of the rejection, which is also logged
RECURSIVE ForEachBatchResult(_, _, _, _)
ForEachBatchResult(batch, ls, sources, acc) ==
    IF batch = << >> THEN acc
    ELSE LET source == sources[Head(batch)]
         IN  ForEachBatchResult(Tail(batch), ls, sources,
                 IF ls[Head(batch)] = "fulfilled"
                 THEN [acc EXCEPT
                          !.results = Append(@, discoverFromSource(source))]
                 ELSE [results |-> Append(acc.results,
                                      DiscoveryResult(source.type, << >>,
                                                      << ErrorMessage >>)),
                       log     |-> Append(acc.log, source.type)])

\* The sources one configuration is drawn from
SourceKinds ==
    { Source("local", TRUE, "ok", "ok", 2, FALSE),
      Source("registry", TRUE, "ok", "fails", 1, FALSE),
      Source("api", FALSE, "ok", "ok", 1, FALSE),
      Source("vscode", TRUE, "ok", "fails", 1, FALSE),
      Source("other", TRUE, "ok", "ok", 1, FALSE),
      Source("api", TRUE, "missing", "ok", 1, FALSE),
      Source("registry", TRUE, "ok", "ok", 1, TRUE) }

\* config.maxConcurrent as it arrives from a config file or --parallel
ConcurrencySettings == {-1, 0, 1, 2}

InitDiscovery ==
    /\ discPc = "start"
    /\ config \in [sources : SeqsUpTo(SourceKinds, MaxSources),
                   maxConcurrent : ConcurrencySettings]
    /\ batches = << >>
    /\ chunkI = 0
    /\ batchNo = 0
    /\ lookupState = [i \in DOMAIN config.sources |-> "idle"]
    /\ discResults = << >>
    /\ discLog = << >>
    /\ inFlight = 0
    /\ AnalyzeIdle
    /\ ScoreIdle
    /\ OverallIdle
    /\ AuditIdle
    /\ ProbeIdle
    /\ SummaryIdle
    /\ EnumIdle
    /\ CertIdle

\* Lines 523-529: results = [], the enabled sources, the call of chunkArray
StartDiscovery ==
    /\ discPc = "start"
    /\ discPc' = "chunking"
    /\ batches' = << >>
    /\ chunkI' = 0
    /\ UNCHANGED << config, batchNo, lookupState, discResults, discLog,
                    inFlight >>
    /\ UNCHANGED << analyzeVars, scoreVars, overallVars, auditVars, probeVars,
                    summaryVars >>
    /\ UNCHANGED << enumVars, certVars >>

\* chunkArray, one iteration of for (let i = 0; i < array.length; i += size)
ChunkStep ==
    /\ discPc = "chunking"
    /\ chunkI < Len(enabledSources(config))
    /\ Len(batches) < MaxChunks
    /\ batches' = Append(batches,
                         Slice(enabledSources(config), chunkI,
                               chunkI + maxConcurrent(config)))
    /\ chunkI' = chunkI + maxConcurrent(config)
    /\ UNCHANGED << discPc, config, batchNo, lookupState, discResults, discLog,
                    inFlight >>
    /\ UNCHANGED << analyzeVars, scoreVars, overallVars, auditVars, probeVars,
                    summaryVars >>
    /\ UNCHANGED << enumVars, certVars >>

\* chunkArray returns: the loop condition is false; the for-of loop begins
ChunkReturn ==
    /\ discPc = "chunking"
    /\ ~(chunkI < Len(enabledSources(config)))
    /\ discPc' = "loop"
    /\ batchNo' = 1
    /\ UNCHANGED << config, batches, chunkI, lookupState, discResults, discLog,
                    inFlight >>
    /\ UNCHANGED << analyzeVars, scoreVars, overallVars, auditVars, probeVars,
                    summaryVars >>
    /\ UNCHANGED << enumVars, certVars >>

\* Lines 531-536: batch.map calls discoverFromSource for each source of the
\* batch, and the promises go to allSettled.
LaunchBatch ==
    /\ discPc = "loop"
    /\ batchNo <= Len(batches)
    /\ discPc' = "batch"
    /\ lookupState' =
           [i \in DOMAIN lookupState |->
               IF i \in Range(batches[batchNo])
               THEN (IF LookupSettlesAtLaunch(config.sources[i])
                     THEN SourceSettles(config.sources[i]) ELSE "pending")
               ELSE lookupState[i]]
    /\ UNCHANGED << config, batches, chunkI, batchNo, discResults, discLog,
                    inFlight >>
    /\ UNCHANGED << analyzeVars, scoreVars, overallVars, auditVars, probeVars,
                    summaryVars >>
    /\ UNCHANGED << enumVars, certVars >>

\* The lookup of source i completes and its promise settles.
LookupSettles(i) ==
    /\ discPc = "batch"
    /\ lookupState[i] = "pending"
    /\ lookupState' = [lookupState EXCEPT ![i] = SourceSettles(config.sources[i])]
    /\ UNCHANGED << discPc, config, batches, chunkI, batchNo, discResults,
                    discLog, inFlight >>
    /\ UNCHANGED << analyzeVars, scoreVars, overallVars, auditVars, probeVars,
                    summaryVars >>
    /\ UNCHANGED << enumVars, certVars >>

\* Lines 536-551: the await resumes, the forEach fills results, and the
\* for-of loop moves to the next batch.
BatchJoin ==
    /\ discPc = "batch"
    /\ BatchSettled(batches[batchNo], lookupState) # "pending"
    /\ IF BatchSettled(batches[batchNo], lookupState) = "rejected"
       THEN /\ discPc' = "rejected"
            /\ UNCHANGED << discResults, discLog, batchNo >>
       ELSE /\ LET after == ForEachBatchResult(batches[batchNo], lookupState,
                                               config.sources,
                                               [results |-> discResults,
                                                log |-> discLog])
               IN  /\ discResults' = after.results
                   /\ discLog' = after.log
            /\ batchNo' = batchNo + 1
            /\ discPc' = "loop"
    /\ UNCHANGED << config, batches, chunkI, lookupState, inFlight >>
    /\ UNCHANGED << analyzeVars, scoreVars, overallVars, auditVars, probeVars,
                    summaryVars >>
    /\ UNCHANGED << enumVars, certVars >>

\* Line 553: return results
DiscoveryReturn ==
    /\ discPc = "loop"
    /\ batchNo > Len(batches)
    /\ discPc' = "returned"
    /\ UNCHANGED << config, batches, chunkI, batchNo, lookupState, discResults,
                    discLog, inFlight >>
    /\ UNCHANGED << analyzeVars, scoreVars, overallVars, auditVars, probeVars,
                    summaryVars >>
    /\ UNCHANGED << enumVars, certVars >>

\* performAudit, lines 43-69: the servers of all results; none: return [];
\* otherwise allServers.map starts the analysis of every server, and each
\* callback runs to its await of analyzeServer.
LaunchAnalyses ==
    /\ discPc = "returned"
    /\ LET found == FlatMapServers(discResults)
       IN  /\ inFlight' = Len(found)
           /\ discPc' = IF Len(found) = 0 THEN "done" ELSE "analysing"
    /\ UNCHANGED << config, batches, chunkI, batchNo, lookupState, discResults,
                    discLog >>
    /\ UNCHANGED << analyzeVars, scoreVars, overallVars, auditVars, probeVars,
                    summaryVars >>
    /\ UNCHANGED << enumVars, certVars >>

\* An analysis settles; after the last one allSettled resumes performAudit.
AnalysisDone ==
    /\ discPc = "analysing"
    /\ inFlight > 0
    /\ inFlight' = inFlight - 1
    /\ discPc' = IF inFlight = 1 THEN "done" ELSE "analysing"
    /\ UNCHANGED << config, batches, chunkI, batchNo, lookupState, discResults,
                    discLog >>
    /\ UNCHANGED << analyzeVars, scoreVars, overallVars, auditVars, probeVars,
                    summaryVars >>
    /\ UNCHANGED << enumVars, certVars >>

NextDiscovery ==
    \/ StartDiscovery
    \/ ChunkStep
    \/ ChunkReturn
    \/ LaunchBatch
    \/ \E i \in DOMAIN lookupState : LookupSettles(i)
    \/ BatchJoin
    \/ DiscoveryReturn
    \/ LaunchAnalyses
    \/ AnalysisDone

SpecDiscovery == InitDiscovery /\ [][NextDiscovery]_vars

(***************************************************************************)
(* SpecSummary: createAuditSummary on a drawn collection of results.       *)
(***************************************************************************)
\* A result without any check, as generateReport may be handed
EmptyResult == AnalysisResult(NoServer, << >>, << >>, << >>)

\* The results of analysing an unreachable http server, a hardened https
\* server and an exposed https server whose certificate has expired
SummaryResults ==
    {analyzeServer([id |-> 1, protocol |-> scn.protocol,
                    endpoint |-> scn.endpoint, metadata |-> scn.metadata],
                   [net |-> scn.net, probeFault |-> scn.probeFault,
                    tryFault |-> scn.tryFault]).value :
        scn \in {Scenario("http", "url", "rateLimit", AllDown, {}, FALSE),
                 Scenario("https", "url", "absent", Healthy, {}, FALSE),
                 Scenario("https", "url", "empty", Exposed, {}, FALSE)}}
      \cup {EmptyResult}

InitSummary ==
    /\ sumPc = "input"
    /\ resultsGiven \in SeqsUpTo(SummaryResults, MaxServers)
    /\ resultsIn = resultsGiven
    /\ summary = NoSummary
    /\ AnalyzeIdle
    /\ ScoreIdle
    /\ OverallIdle
    /\ AuditIdle
    /\ ProbeIdle
    /\ DiscoveryIdle
    /\ EnumIdle
    /\ CertIdle

\* createAuditSummary reads results through filter, reduce and map, none of
\* which writes to the array or to its elements.
Summarise ==
    /\ sumPc = "input"
    /\ sumPc' = "done"
    /\ summary' = createAuditSummary(resultsIn)
    /\ UNCHANGED << resultsGiven, resultsIn >>
    /\ UNCHANGED << analyzeVars, scoreVars, overallVars, auditVars, probeVars,
                    discVars >>
    /\ UNCHANGED << enumVars, certVars >>

NextSummary == Summarise

SpecSummary == InitSummary /\ [][NextSummary]_vars

(***************************************************************************)
(* SpecEnum: checkAPIEndpoints request by request.  The method awaits each *)
(* GET before it issues the next one, so the requests happen one at a time *)
(* and the findings grow between them.                                     *)
(***************************************************************************)
InitEnum ==
    /\ enumPc = "start"
    /\ enumNet \in ApiAnswers
    /\ enumI = 0
    /\ enumLog = << >>
    /\ enumOut = NoFindings
    /\ AnalyzeIdle
    /\ ScoreIdle
    /\ OverallIdle
    /\ AuditIdle
    /\ ProbeIdle
    /\ SummaryIdle
    /\ DiscoveryIdle
    /\ CertIdle

\* Lines 628-634: baseUrl, the first iteration of the for-of loop, and its
\* axios.get, which the method awaits
EnumStart ==
    /\ enumPc = "start"
    /\ enumPc' = "awaiting"
    /\ enumI' = 1
    /\ enumLog' = << 1 >>
    /\ UNCHANGED << enumNet, enumOut >>
    /\ UNCHANGED << analyzeVars, scoreVars, overallVars, auditVars, probeVars,
                    summaryVars, discVars, certVars >>

\* What follows the settlement of the GET of path enumI: the rest of the
\* iteration, then the GET of the next path or, after the last one, the
\* return of line 676
EnumContinue(response) ==
    LET next == NextEndpoint(enumI, response)
    IN  /\ enumOut' = EndpointIteration(enumI, response, enumOut)
        /\ enumI' = next
        /\ IF next > Len(Endpoints)
           THEN /\ enumPc' = "returned"
                /\ UNCHANGED enumLog
           ELSE /\ enumPc' = "awaiting"
                /\ enumLog' = Append(enumLog, next)
        /\ UNCHANGED enumNet
        /\ UNCHANGED << analyzeVars, scoreVars, overallVars, auditVars,
                        probeVars, summaryVars, discVars, certVars >>

\* The awaited GET completes with a response (any status)
EnumAnswered ==
    /\ enumPc = "awaiting"
    /\ enumNet[enumI].ok
    /\ EnumContinue(enumNet[enumI])

\* The awaited GET fails (refused, timed out): axios rejects, the inner
\* catch ignores the error
EnumFailed ==
    /\ enumPc = "awaiting"
    /\ ~enumNet[enumI].ok
    /\ EnumContinue(enumNet[enumI])

NextEnum ==
    \/ EnumStart
    \/ EnumAnswered
    \/ EnumFailed

SpecEnum == InitEnum /\ [][NextEnum]_vars

(***************************************************************************)
(* SpecCert: getCertificateInfo while checkSSLConfiguration awaits it.     *)
(* The executor opens the socket and arms the timer; after that the        *)
(* connect callback, the socket's 'error' event and the timer callback run *)
(* in whatever order the network and the clock produce them.  Each calls   *)
(* resolve or reject of the one promise.  kind is "peer" (resolved with    *)
(* the peer's certificate), "error" or "timeout".                          *)
(***************************************************************************)
\* A promise on which the latest call of resolve or reject wins
SettleLast(promise, status, kind) == [status |-> status, kind |-> kind]

\* resolve(...) / reject(...) of new Promise((resolve, reject) => ...): the
\* first call settles the promise, every later call does nothing
SettlePromise(promise, status, kind) ==
    IF promise.status = "pending" THEN [status |-> status, kind |-> kind]
    ELSE promise

\* 1 if the call changed the promise, else 0
Changed(before, after) == IF before = after THEN 0 ELSE 1

\* What `await this.getCertificateInfo(...)` gives checkSSLConfiguration:
\* the peer's certificate, or the rejection
CertOutcome(kind, peer) ==
    IF kind = "peer" THEN peer
    ELSE [kind |-> kind, now |-> 0, validFrom |-> 0, validTo |-> 0,
          tls |-> "none"]

\* The records the TLS probe connects for, and what the peers have to offer
CertServers ==
    {srv \in Servers :
        srv.protocol \in {"https", "wss"} /\ srv.endpoint = "url"
          /\ srv.metadata = "absent"}

CertPeers ==
    {c \in CertAnswers :
        \/ c.kind = "empty" /\ c.tls = "TLSv1.2"
        \/ /\ c.kind = "cert"
           /\ c.validFrom = -40
           /\ c.validTo \in {-1, 29, 60}
           /\ c.tls \in {"TLSv1", "TLSv1.3"}}

InitCert ==
    /\ certPc = "start"
    /\ certServer \in CertServers
    /\ certPeer \in CertPeers
    /\ socket = "none"
    /\ timer = "none"
    /\ certPromise = Pending
    /\ certSettles = 0
    /\ certLog = << >>
    /\ tlsOut = NoFindings
    /\ AnalyzeIdle
    /\ ScoreIdle
    /\ OverallIdle
    /\ AuditIdle
    /\ ProbeIdle
    /\ SummaryIdle
    /\ DiscoveryIdle
    /\ EnumIdle

\* Lines 318-323 and the executor of lines 839-853: tls.connect, the 'error'
\* listener, setTimeout; the probe then awaits the promise.
CertConnect ==
    /\ certPc = "start"
    /\ certPc' = "awaiting"
    /\ socket' = "connecting"
    /\ timer' = "armed"
    /\ UNCHANGED << certServer, certPeer, certPromise, certSettles, certLog,
                    tlsOut >>
    /\ UNCHANGED << analyzeVars, scoreVars, overallVars, auditVars, probeVars,
                    summaryVars, discVars, enumVars >>

\* Lines 840-844: the handshake completes; getPeerCertificate, socket.end(),
\* resolve(cert)
SecureConnect ==
    /\ socket = "connecting"
    /\ socket' = "ended"
    /\ certPromise' = SettlePromise(certPromise, "fulfilled", "peer")
    /\ certSettles' = certSettles + Changed(certPromise, certPromise')
    /\ certLog' = Append(certLog, "connect")
    /\ UNCHANGED << certPc, certServer, certPeer, timer, tlsOut >>
    /\ UNCHANGED << analyzeVars, scoreVars, overallVars, auditVars, probeVars,
                    summaryVars, discVars, enumVars >>

\* Lines 846-848: the socket emits 'error', while connecting or after the
\* handshake (a reset of the half-closed connection); reject(error)
SocketError ==
    /\ socket \in {"connecting", "ended"}
    /\ socket' = "errored"
    /\ certPromise' = SettlePromise(certPromise, "rejected", "error")
    /\ certSettles' = certSettles + Changed(certPromise, certPromise')
    /\ certLog' = Append(certLog, "error")
    /\ UNCHANGED << certPc, certServer, certPeer, timer, tlsOut >>
    /\ UNCHANGED << analyzeVars, scoreVars, overallVars, auditVars, probeVars,
                    summaryVars, discVars, enumVars >>

\* Lines 850-853: the timer callback, which nothing clears: socket.destroy(),
\* reject(new Error('Certificate check timeout'))
TimerFires ==
    /\ timer = "armed"
    /\ timer' = "fired"
    /\ socket' = "destroyed"
    /\ certPromise' = SettlePromise(certPromise, "rejected", "timeout")
    /\ certSettles' = certSettles + Changed(certPromise, certPromise')
    /\ certLog' = Append(certLog, "timer")
    /\ UNCHANGED << certPc, certServer, certPeer, tlsOut >>
    /\ UNCHANGED << analyzeVars, scoreVars, overallVars, auditVars, probeVars,
                    summaryVars, discVars, enumVars >>

\* Lines 323-422: the await resumes with the settled promise, and the rest
\* of checkSSLConfiguration runs to its return.
ProbeResumes ==
    /\ certPc = "awaiting"
    /\ certPromise.status # "pending"
    /\ certPc' = "returned"
    /\ tlsOut' = checkSSLConfiguration(certServer,
                      [Healthy EXCEPT
                          !.cert = CertOutcome(certPromise.kind, certPeer)])
    /\ UNCHANGED << certServer, certPeer, socket, timer, certPromise,
                    certSettles, certLog >>
    /\ UNCHANGED << analyzeVars, scoreVars, overallVars, auditVars, probeVars,
                    summaryVars, discVars, enumVars >>

NextCert ==
    \/ CertConnect
    \/ SecureConnect
    \/ SocketError
    \/ TimerFires
    \/ ProbeResumes

\* The executor runs synchronously, Node runs the callback of an armed timer
\* and the continuation of a settled promise; the network owes nothing.
SpecCert ==
    /\ InitCert
    /\ [][NextCert]_vars
    /\ WF_vars(CertConnect)
    /\ WF_vars(TimerFires)
    /\ WF_vars(ProbeResumes)

(***************************************************************************)
(* Properties.                                                             *)
(***************************************************************************)
\* The sequences that hold the elements of seq in some order
PermutationsOf(seq) ==
    {[i \in 1 .. Len(seq) |-> seq[f[i]]] : f \in Permutations(1 .. Len(seq))}

\* How often x occurs in seq
Count(x, seq) == Cardinality({i \in 1 .. Len(seq) : seq[i] = x})

\* The weights as the specification states them
StatedWeight(severity) ==
    CASE severity = "critical" -> 10
      [] severity = "high"     -> 8
      [] severity = "medium"   -> 5
      [] severity = "low"      -> 2
      [] OTHER                 -> 1

RECURSIVE StatedMaxScore(_)
StatedMaxScore(checks) ==
    IF checks = << >> THEN 0
    ELSE StatedWeight(Head(checks).severity) + StatedMaxScore(Tail(checks))

\* Twice the stated totalScore: full weight for pass, half for warning
RECURSIVE StatedTotalScore2(_)
StatedTotalScore2(checks) ==
    IF checks = << >> THEN 0
    ELSE (CASE Head(checks).status = "pass"    -> 2 * StatedWeight(Head(checks).severity)
            [] Head(checks).status = "warning" -> StatedWeight(Head(checks).severity)
            [] OTHER                           -> 0)
         + StatedTotalScore2(Tail(checks))

\* C6: the severity weights are critical=10, high=8, medium=5, low=2, info=1
\* (anything else 1), strictly decreasing from critical to info; after the
\* scorer's loop maxScore is the sum of the weights of all checks and
\* totalScore the sum of the full weight of every pass check and half the
\* weight of every warning check, fail and error checks adding nothing.
C6_ScorerAccumulation ==
    /\ \A sv \in AnySeverity : getSeverityWeight(sv) = StatedWeight(sv)
    /\ getSeverityWeight("critical") > getSeverityWeight("high")
    /\ getSeverityWeight("high") > getSeverityWeight("medium")
    /\ getSeverityWeight("medium") > getSeverityWeight("low")
    /\ getSeverityWeight("low") > getSeverityWeight("info")
    /\ scorePc = "scored" =>
           /\ scoreAcc.maxScore = StatedMaxScore(checksIn)
           /\ scoreAcc.totalScore2 = StatedTotalScore2(checksIn)

\* A medium warning (2.5 of 5) next to a high fail (0 of 8) has been scored.
C6_Witness ==
    /\ scorePc = "scored"
    /\ Len(checksIn) = 2
    /\ checksIn[1].status = "warning" /\ checksIn[1].severity = "medium"
    /\ checksIn[2].status = "fail" /\ checksIn[2].severity = "high"
    /\ scoreAcc = [totalScore2 |-> 5, maxScore |-> 13]

\* C7: with maxScore zero the grade is C; otherwise the percentage
\* 100 * totalScore / maxScore lies in [0, 100] and the grade is A iff it is
\* >= 90, B iff in [80, 90), C iff in [60, 80), D iff in [40, 60), F iff
\* below 40 (thresholds closed at the lower bound).
C7_GradeMapping ==
    scorePc = "scored" =>
        LET t100  == 100 * scoreAcc.totalScore2   \* 200 * totalScore
            m     == 2 * scoreAcc.maxScore        \* percentage = t100 / m
            grade == scoreResult.overallScore
        IN  /\ scoreAcc.maxScore = 0 => grade = "C"
            /\ scoreAcc.maxScore > 0 =>
                   /\ 0 <= t100 /\ t100 <= 100 * m
                   /\ grade = "A" <=> t100 >= 90 * m
                   /\ grade = "B" <=> (80 * m <= t100 /\ t100 < 90 * m)
                   /\ grade = "C" <=> (60 * m <= t100 /\ t100 < 80 * m)
                   /\ grade = "D" <=> (40 * m <= t100 /\ t100 < 60 * m)
                   /\ grade = "F" <=> t100 < 40 * m

\* A collection scoring exactly 90 percent (9 of 10) has been graded A.
C7_Witness ==
    /\ scorePc = "scored"
    /\ scoreAcc = [totalScore2 |-> 18, maxScore |-> 10]
    /\ scoreResult.overallScore = "A"

\* C8: the grade of a result is a function of the (severity, status) pairs
\* of its checks alone: scoring the same checks in any order, under any
\* identifiers, gives the grade the result carries, whatever vulnerabilities
\* were found next to them.
C8_ScorerPure ==
    scorePc = "scored" =>
        \A q \in PermutationsOf(checksIn) :
            LET relabelled ==
                    [i \in 1 .. Len(q) |->
                        Check("other", "other", q[i].status, q[i].severity,
                              "details")]
            IN  /\ calculateSecurityScore(q) = scoreResult.overallScore
                /\ calculateSecurityScore(relabelled) = scoreResult.overallScore

\* Two different checks were graded A although a vulnerability was found.
C8_Witness ==
    /\ scorePc = "scored"
    /\ Len(checksIn) = 2
    /\ checksIn[1].severity # checksIn[2].severity
    /\ checksIn[1].status # checksIn[2].status
    /\ vulnsIn # << >>
    /\ scoreResult.vulnerabilities = vulnsIn
    /\ scoreResult.overallScore = "A"

\* The letter values as the specification states them
StatedValue(score) ==
    CASE score = "A" -> 5 [] score = "B" -> 4 [] score = "C" -> 3
      [] score = "D" -> 2 [] score = "F" -> 1

RECURSIVE StatedSum(_)
StatedSum(scores) ==
    IF scores = << >> THEN 0
    ELSE StatedValue(Head(scores)) + StatedSum(Tail(scores))

\* C9: the aggregate of a collection of grades maps A..F to 5..1, averages,
\* and maps the average back: >= 4.5 A, >= 3.5 B, >= 2.5 C, >= 1.5 D, else F;
\* the empty collection gives C and a single grade gives itself.
C9_AggregateGrade ==
    aggPc = "done" =>
        LET n    == Len(scoresIn)
            sum2 == 2 * StatedSum(scoresIn)     \* average = sum2 / (2 * n)
        IN  /\ n = 0 => overallScore = "C"
            /\ n = 1 => overallScore = scoresIn[1]
            /\ n > 0 =>
                   /\ overallScore = "A" <=> sum2 >= 9 * n
                   /\ overallScore = "B" <=> (7 * n <= sum2 /\ sum2 < 9 * n)
                   /\ overallScore = "C" <=> (5 * n <= sum2 /\ sum2 < 7 * n)
                   /\ overallScore = "D" <=> (3 * n <= sum2 /\ sum2 < 5 * n)
                   /\ overallScore = "F" <=> sum2 < 3 * n

\* An A and a B (average exactly 4.5) have been aggregated to A.
C9_Witness ==
    /\ aggPc = "done"
    /\ scoresIn = << "A", "B" >>
    /\ overallScore = "A"

\* C1: a probe that raises never makes analyzeServer reject: whichever probes
\* raise, and whatever the others return, analyzeServer is never rejected and,
\* once settled, is fulfilled with a result that carries the three collections
\* checks, vulnerabilities and recommendations.
C1_ProbeFaultAbsorbed ==
    probeFault # {} =>
        /\ pc # "rejected"
        /\ pc = "done" =>
               /\ result.status = "fulfilled"
               /\ {"checks", "vulnerabilities", "recommendations"}
                      \subseteq DOMAIN result.value
               /\ DOMAIN result.value.checks = 1 .. Len(result.value.checks)
               /\ DOMAIN result.value.vulnerabilities
                      = 1 .. Len(result.value.vulnerabilities)
               /\ DOMAIN result.value.recommendations
                      = 1 .. Len(result.value.recommendations)
               /\ warnLog # << >>

\* analyzeServer fulfilled although exactly one probe, a network probe that
\* was still pending when its siblings settled, raised.
C1_Witness ==
    /\ pc = "done"
    /\ Cardinality(probeFault) = 1
    /\ \E p \in probeFault : ~SettlesAtLaunch(p, server) /\ warnLog = << p >>
    /\ result.status = "fulfilled"

\* The findings of kind k that the fulfilled probes returned, as a count of x
FulfilledCount(x, k) ==
    LET RECURSIVE Sum(_)
        Sum(p) ==
            IF p > 7 THEN 0
            ELSE (IF probeState[p] = "fulfilled"
                  THEN Count(x, probeOut[p][k]) ELSE 0) + Sum(p + 1)
    IN  Sum(0)

AllFindings(k) == UNION {Range(probeOut[p][k]) : p \in Probes}

\* C2: analyzeServer launches the eight probes together and returns only
\* after each has settled; its result then holds every finding of every
\* probe that fulfilled, as often as that probe returned it, and nothing else,
\* whichever probes rejected and in whatever order the probes settled.
C2_WaitForAllAndMerge ==
    /\ pc \in {"awaiting", "done", "rejected"} =>
           \A p \in Probes : probeState[p] # "idle"
    /\ pc = "done" =>
           /\ \A p \in Probes : probeState[p] \in {"fulfilled", "rejected"}
           /\ \A p \in Probes :
                  /\ probeState[p] = "rejected" <=> p \in probeFault
                  /\ probeState[p] = "fulfilled" =>
                         probeOut[p] = RunProbe(p, server, net)
           /\ \A k \in {"checks", "vulnerabilities", "recommendations"} :
                  \A x \in AllFindings(k) \cup Range(result.value[k]) :
                      Count(x, result.value[k]) = FulfilledCount(x, k)

\* analyzeServer returned after a probe rejected, and a probe launched after
\* the rejected one contributed its findings.
C2_Witness ==
    /\ pc = "done"
    /\ \E p, q \in Probes :
           /\ p < q
           /\ probeState[p] = "rejected"
           /\ ~SettlesAtLaunch(p, server)
           /\ probeState[q] = "fulfilled"
           /\ probeOut[q].checks # << >>
           /\ Range(probeOut[q].checks) \subseteq Range(result.value.checks)

\* C5 (as stated): analyzeServer rejects if and only if the server record is
\* structurally invalid (an empty endpoint), and then with a
\* SecurityAnalysisError that carries the server and the cause. Stated for
\* the calls in which nothing raises beside what the record itself causes.
C5_RejectsIffInvalidRecord ==
    (pc \in {"done", "rejected"} /\ probeFault = {} /\ ~tryFault) =>
        /\ pc = "rejected" <=> server.endpoint = "empty"
        /\ pc = "rejected" =>
               /\ result.error.name = "SecurityAnalysisError"
               /\ result.error.server = server.id

\* Every request of the probes fails
NetAllFail(n) ==
    /\ ~n.reach.ok
    /\ ~n.auth.ok
    /\ ~n.http.ok
    /\ ~n.cors.ok
    /\ \A i \in DOMAIN n.api : ~n.api[i].ok

\* C10: for an http server none of whose requests is answered, the
\* reachability probe returns exactly one check, fail and critical, and one
\* vulnerability; the TLS probe exactly one fail check named 'SSL/TLS Usage'
\* and one vulnerability; and the grade is F, with or without declared
\* rate-limit metadata.
C10_UnreachableHttp ==
    (pc = "done" /\ server.protocol = "http" /\ NetAllFail(net)
       /\ probeFault = {}) =>
        /\ Len(probeOut[0].checks) = 1
        /\ probeOut[0].checks[1].status = "fail"
        /\ probeOut[0].checks[1].severity = "critical"
        /\ Len(probeOut[0].vulnerabilities) = 1
        /\ Len(probeOut[1].checks) = 1
        /\ probeOut[1].checks[1].status = "fail"
        /\ probeOut[1].checks[1].name = "SSL/TLS Usage"
        /\ Len(probeOut[1].vulnerabilities) = 1
        /\ result.value.overallScore = "F"

\* An unreachable http server that declares a rate limit has been graded F.
C10_Witness ==
    /\ pc = "done"
    /\ server.protocol = "http"
    /\ server.endpoint = "url"
    /\ server.metadata = "rateLimit"
    /\ NetAllFail(net)
    /\ probeFault = {}
    /\ Len(result.value.checks) = 6
    /\ result.value.overallScore = "F"

\* The servers of the audit whose analysis fulfils
FulfilledServers ==
    {i \in DOMAIN allServers :
        analyzeServer(allServers[i], auditEnv[i]).status = "fulfilled"}

\* The entries of seq that are in S, in the order of seq
RECURSIVE Restrict(_, _)
Restrict(seq, S) ==
    IF seq = << >> THEN << >>
    ELSE (IF Head(seq) \in S THEN << Head(seq) >> ELSE << >>)
           \o Restrict(Tail(seq), S)

\* C3: over a non-empty server collection performAudit never rejects; it
\* resolves only after every analysis has settled, and what it returns holds
\* exactly one result for each server whose analysis fulfilled, none for a
\* server whose analysis rejected, in the order in which the analyses
\* settled (which need not be the input order).
C3_AuditCompletes ==
    /\ (discovery.status = "fulfilled"
          /\ FlatMapServers(discovery.results) # << >>) => auditPc # "rejected"
    /\ (auditPc = "returned" /\ allServers # << >>) =>
           LET outcome == [i \in DOMAIN allServers |->
                              analyzeServer(allServers[i], auditEnv[i])]
               fulfilled == {i \in DOMAIN allServers :
                                outcome[i].status = "fulfilled"}
           IN  /\ \A i \in DOMAIN allServers : cbState[i] = "settled"
               /\ Len(returned) = Cardinality(fulfilled)
               /\ \A i \in fulfilled : Count(outcome[i].value, returned) = 1
               /\ \A k \in DOMAIN returned : returned[k].serverId \in fulfilled
               /\ [k \in DOMAIN returned |-> returned[k].serverId]
                      = Restrict(settleOrder, fulfilled)
               /\ Len(errorLog) = Len(allServers) - Cardinality(fulfilled)

\* An audit returned results out of input order, after the analysis of one
\* of its servers had rejected before another one settled.
C3_Witness ==
    /\ auditPc = "returned"
    /\ Len(allServers) = 3
    /\ Len(returned) = 2
    /\ returned[1].serverId > returned[2].serverId
    /\ errorLog # << >>
    /\ settleOrder[1] \notin FulfilledServers

\* C4 (as stated): of 3 servers exactly one of which has an empty endpoint,
\* with nothing else going wrong, the audit returns exactly 2 results and
\* logs exactly 1 failure.
C4_MalformedServerExcluded ==
    (/\ auditPc = "returned"
     /\ Len(allServers) = 3
     /\ Cardinality({i \in DOMAIN allServers :
                        allServers[i].endpoint = "empty"}) = 1
     /\ \A i \in DOMAIN auditEnv :
            auditEnv[i].probeFault = {} /\ ~auditEnv[i].tryFault) =>
        /\ Len(returned) = 2
        /\ Len(errorLog) = 1

\* How many entries of seq carry the identifier id
CountId(seq, id) == Cardinality({i \in DOMAIN seq : seq[i].id = id})

\* The TLS probe has returned after retrieving a certificate with dates
CertificateRetrieved ==
    /\ unitPc = "returned"
    /\ unitProbe = 1
    /\ unitServer.protocol \in {"https", "wss"}
    /\ unitServer.endpoint = "url"
    /\ unitNet.cert.kind = "cert"

\* C11 (as stated): when the TLS probe retrieves a certificate whose notAfter
\* is in the past, it returns exactly one certificate-validity check, fail
\* and critical, exactly one vulnerability 'expired-certificate', and no
\* 'certificate-expiry-warning' recommendation.
C11_ExpiredCertificate ==
    (CertificateRetrieved /\ unitNet.cert.validTo < unitNet.cert.now) =>
        /\ CountId(unitOut.checks, "ssl-certificate-valid") = 1
        /\ \A i \in DOMAIN unitOut.checks :
               unitOut.checks[i].id = "ssl-certificate-valid" =>
                   /\ unitOut.checks[i].status = "fail"
                   /\ unitOut.checks[i].severity = "critical"
        /\ CountId(unitOut.vulnerabilities, "expired-certificate") = 1
        /\ CountId(unitOut.recommendations, "certificate-expiry-warning") = 0

\* The authentication probe has returned after its GET was answered with
\* the given status
AuthAnswered(status) ==
    /\ unitPc = "returned"
    /\ unitProbe = 2
    /\ unitNet.auth.ok
    /\ unitNet.auth.status = status

\* C12 (as stated): when the unauthenticated GET returns 200 the probe
\* returns exactly one check (warning, medium) and exactly one
\* recommendation; when it returns 401, exactly one check (pass, high) and no
\* recommendation, whatever headers the response carries.
C12_AuthScenarios ==
    /\ AuthAnswered(200) =>
           /\ Len(unitOut.checks) = 1
           /\ unitOut.checks[1].status = "warning"
           /\ unitOut.checks[1].severity = "medium"
           /\ Len(unitOut.recommendations) = 1
    /\ AuthAnswered(401) =>
           /\ Len(unitOut.checks) = 1
           /\ unitOut.checks[1].status = "pass"
           /\ unitOut.checks[1].severity = "high"
           /\ Len(unitOut.recommendations) = 0

\* The response of the authentication probe carries a www-authenticate or an
\* authorization header
CarriesAuthHeader ==
    \/ "www-authenticate" \in unitNet.auth.headers
    \/ "authorization" \in unitNet.auth.headers

\* C12 (amended): when the unauthenticated GET returns 200 the probe returns
\* exactly one 'authentication-required' check (warning, medium) and exactly
\* one recommendation; when it returns 401, exactly one
\* 'authentication-required' check (pass, high) and no recommendation; in
\* both cases it returns one more check, 'auth-headers-present' (pass, low),
\* exactly when the response carries a www-authenticate or authorization
\* header, and no other check.
C12_AuthScenariosWithHeaderCheck ==
    /\ AuthAnswered(200) =>
           /\ unitOut.checks[1] =
                  Check("authentication-required", "Authentication Required",
                        "warning", "medium", "")
           /\ Len(unitOut.recommendations) = 1
    /\ AuthAnswered(401) =>
           /\ unitOut.checks[1] =
                  Check("authentication-required", "Authentication Required",
                        "pass", "high", "")
           /\ Len(unitOut.recommendations) = 0
    /\ (AuthAnswered(200) \/ AuthAnswered(401)) =>
           /\ CountId(unitOut.checks, "authentication-required") = 1
           /\ Len(unitOut.checks) = IF CarriesAuthHeader THEN 2 ELSE 1
           /\ CarriesAuthHeader =>
                  /\ unitOut.checks[2].id = "auth-headers-present"
                  /\ unitOut.checks[2].status = "pass"
                  /\ unitOut.checks[2].severity = "low"
           /\ unitOut.vulnerabilities = << >>

\* An http server answered 401 with an authorization header only, and the
\* probe returned the pass check followed by the header check.
C12_Witness ==
    /\ AuthAnswered(401)
    /\ unitServer.protocol = "http"
    /\ unitServer.endpoint = "url"
    /\ unitNet.auth.headers = {"authorization"}
    /\ Len(unitOut.checks) = 2
    /\ unitOut.recommendations = << >>

\* The CORS probe has returned
CorsReturned == unitPc = "returned" /\ unitProbe = 6

\* C13: on an http/https server an OPTIONS response whose
\* Access-Control-Allow-Origin is '*' gives exactly one warning check
\* (medium) and exactly one recommendation; a specific origin gives exactly
\* one pass check (low) and no recommendation; an absent header gives no
\* check; for a ws/wss server the probe sends no request (it returns before
\* any await) and returns nothing, whatever the network would answer.
C13_CorsScenarios ==
    CorsReturned =>
        /\ (~IsWebSocket(unitServer) /\ unitNet.cors.ok) =>
               /\ unitNet.cors.acao = "*" =>
                      /\ Len(unitOut.checks) = 1
                      /\ unitOut.checks[1].status = "warning"
                      /\ unitOut.checks[1].severity = "medium"
                      /\ Len(unitOut.recommendations) = 1
               /\ unitNet.cors.acao = "origin" =>
                      /\ Len(unitOut.checks) = 1
                      /\ unitOut.checks[1].status = "pass"
                      /\ unitOut.checks[1].severity = "low"
                      /\ Len(unitOut.recommendations) = 0
               /\ unitNet.cors.acao = "absent" => Len(unitOut.checks) = 0
        /\ IsWebSocket(unitServer) =>
               /\ SettlesAtLaunch(6, unitServer)
               /\ unitOut = NoFindings

\* The CORS probe returned nothing for a ws server whose host would have
\* answered an OPTIONS request with the wildcard.
C13_Witness ==
    /\ CorsReturned
    /\ unitServer.protocol = "ws"
    /\ unitNet.cors.ok
    /\ unitNet.cors.acao = "*"
    /\ unitOut = NoFindings

\* The network operation of probe p faulted: its request or connect failed
\* or timed out, or its input was malformed (an empty endpoint)
OperationFaulted(p, srv, n) ==
    CASE p = 0 -> IF IsWebSocket(srv)
                  THEN checkWebSocketAvailability(srv, n) # "open"
                  ELSE ~n.reach.ok
      [] p = 1 -> /\ srv.protocol \in {"https", "wss"}
                  /\ (srv.endpoint = "empty" \/ n.cert.kind # "cert")
      [] p = 2 -> ~n.auth.ok
      [] p = 3 -> ~IsWebSocket(srv) /\ ~n.http.ok
      [] p = 4 -> \A i \in DOMAIN n.api : ~n.api[i].ok
      [] p = 6 -> ~IsWebSocket(srv) /\ ~n.cors.ok
      [] OTHER -> FALSE

\* C17 (as stated): whenever a probe's own operation faults, the probe
\* returns and its output holds at least one check with status error (or
\* fail) that carries the fault's message as details; so for each network
\* probe, the enumeration of the well-known endpoints with every path
\* request failing included.
C17_NoSilentProbeFailure ==
    (unitPc = "returned" /\ OperationFaulted(unitProbe, unitServer, unitNet)) =>
        \E i \in DOMAIN unitOut.checks :
            /\ unitOut.checks[i].status \in {"error", "fail"}
            /\ unitOut.checks[i].details = ErrorMessage

\* The TLS probe has returned for a certificate that is valid now
ValidCertificate ==
    /\ CertificateRetrieved
    /\ unitNet.cert.validFrom <= unitNet.cert.now
    /\ unitNet.cert.now <= unitNet.cert.validTo

\* C20: for an https/wss server whose certificate is valid now
\* (notBefore <= now <= notAfter) the TLS probe returns a pass validity
\* check and no certificate vulnerability, and it returns the
\* 'certificate-expiry-warning' recommendation if and only if notAfter is no
\* later than 30 days from now.
C20_ExpiringSoonIsRecommendation ==
    ValidCertificate =>
        /\ CountId(unitOut.checks, "ssl-certificate-valid") = 1
        /\ \A i \in DOMAIN unitOut.checks :
               unitOut.checks[i].id = "ssl-certificate-valid" =>
                   unitOut.checks[i].status = "pass"
        /\ CountId(unitOut.vulnerabilities, "expired-certificate") = 0
        /\ CountId(unitOut.recommendations, "certificate-expiry-warning")
               = (IF unitNet.cert.validTo <= unitNet.cert.now + 30 THEN 1 ELSE 0)

\* A certificate that expires on the 30th day from now got the pass check
\* and the recommendation.
C20_Witness ==
    /\ ValidCertificate
    /\ unitNet.cert.validTo = unitNet.cert.now + 30
    /\ unitOut.checks[1].status = "pass"
    /\ CountId(unitOut.recommendations, "certificate-expiry-warning") = 1

\* The findings of kind k in a results collection, as (result, position)
\* pairs
FindingsOf(results, k) ==
    UNION {{<< i, j >> : j \in DOMAIN results[i][k]} : i \in DOMAIN results}

\* C14: the summary is a derivation of the results collection that leaves
\* it as it was: totalServers is the number of results, serversAnalyzed the
\* number of results with at least one check, criticalVulnerabilities the
\* number of critical vulnerabilities, highSeverityIssues the number of high
\* vulnerabilities plus the number of checks that are high and failed, and
\* recommendations the number of recommendations, over all results.
C14_SummaryCounts ==
    sumPc = "done" =>
        /\ resultsIn = resultsGiven
        /\ summary.totalServers = Len(resultsGiven)
        /\ summary.serversAnalyzed =
               Cardinality({i \in DOMAIN resultsGiven :
                               resultsGiven[i].checks # << >>})
        /\ summary.criticalVulnerabilities =
               Cardinality({ij \in FindingsOf(resultsGiven, "vulnerabilities") :
                   resultsGiven[ij[1]].vulnerabilities[ij[2]].severity
                       = "critical"})
        /\ summary.highSeverityIssues =
               Cardinality({ij \in FindingsOf(resultsGiven, "vulnerabilities") :
                   resultsGiven[ij[1]].vulnerabilities[ij[2]].severity = "high"})
                 + Cardinality({ij \in FindingsOf(resultsGiven, "checks") :
                       /\ resultsGiven[ij[1]].checks[ij[2]].severity = "high"
                       /\ resultsGiven[ij[1]].checks[ij[2]].status = "fail"})
        /\ summary.recommendations =
               Cardinality(FindingsOf(resultsGiven, "recommendations"))

\* Three results were summarised, one of them without checks, with a
\* critical vulnerability, with failed and with passed high checks.
C14_Witness ==
    /\ sumPc = "done"
    /\ summary.totalServers = 3
    /\ summary.serversAnalyzed = 2
    /\ summary.criticalVulnerabilities > 0
    /\ summary.recommendations > 0
    /\ \E i \in DOMAIN resultsIn : \E j \in DOMAIN resultsIn[i].checks :
           /\ resultsIn[i].checks[j].severity = "high"
           /\ resultsIn[i].checks[j].status = "pass"
    /\ \E i \in DOMAIN resultsIn : \E j \in DOMAIN resultsIn[i].checks :
           /\ resultsIn[i].checks[j].severity = "high"
           /\ resultsIn[i].checks[j].status = "fail"

\* discoverServers has returned (performAudit may have gone on since)
DiscoveryReturned == discPc \in {"returned", "analysing", "done"}

\* The enabled sources of the configuration, as indexes, in their order
EnabledInOrder ==
    Restrict([i \in DOMAIN config.sources |-> i],
             {i \in DOMAIN config.sources : config.sources[i].enabled})

\* The lookup of a source fails: the call awaited in discoverFromSource
\* throws (a failed request, a malformed response, a missing config or url,
\* an unknown type), or discoverFromSource itself rejects
LookupFails(source) ==
    \/ source.type \notin {"local", "registry", "api", "vscode"}
    \/ source.config = "missing" /\ source.type # "vscode"
    \/ source.io = "fails" /\ source.type \in {"registry", "api"}
    \/ source.fault

\* C15: discoverServers never rejects because a source fails, and returns
\* exactly one DiscoveryResult per enabled source, in the order of the
\* enabled sources, none for a disabled one; a source whose lookup fails or
\* whose type is unknown gives a result with no servers and a non-empty
\* errors list; an empty source list gives an empty result array.
C15_OneResultPerEnabledSource ==
    /\ discPc # "rejected"
    /\ DiscoveryReturned =>
           /\ Len(discResults) = Len(EnabledInOrder)
           /\ \A k \in DOMAIN discResults :
                  LET source == config.sources[EnabledInOrder[k]]
                  IN  /\ discResults[k].source = source.type
                      /\ LookupFails(source) =>
                             /\ discResults[k].servers = << >>
                             /\ discResults[k].errors # << >>
           /\ config.sources = << >> => discResults = << >>

\* discoverServers returned two results for three sources: the first failed
\* its request, the second is disabled, and discoverFromSource rejected for
\* the third.
C15_Witness ==
    /\ discPc = "returned"
    /\ Len(config.sources) = 3
    /\ config.sources[1].io = "fails" /\ config.sources[1].type = "registry"
    /\ ~config.sources[2].enabled
    /\ config.sources[3].fault
    /\ lookupState[3] = "rejected"
    /\ Len(discResults) = 2
    /\ discResults[2].errors # << >>

\* The sequences of a sequence of sequences, joined
RECURSIVE Concat(_)
Concat(seqs) == IF seqs = << >> THEN << >> ELSE Head(seqs) \o Concat(Tail(seqs))

\* C19 (as stated): the configured maximum concurrency (5 when the
\* configured value is absent or 0) bounds the units that run together:
\* discovery splits the enabled sources, in order, into consecutive batches
\* of at most that many, never has more lookups in flight, and starts a batch
\* only after every lookup of the batch before has settled; and the
\* analyses of an audit in flight are bounded by the same cap.
C19_BoundedFanOut ==
    config.maxConcurrent >= 0 =>
        LET cap == IF config.maxConcurrent = 0 THEN 5 ELSE config.maxConcurrent
        IN  /\ discPc \in {"loop", "batch", "returned", "analysing", "done"} =>
                   /\ Concat(batches) = EnabledInOrder
                   /\ \A b \in DOMAIN batches :
                          Len(batches[b]) >= 1 /\ Len(batches[b]) <= cap
            /\ Cardinality({i \in DOMAIN lookupState :
                               lookupState[i] = "pending"}) <= cap
            /\ \A i \in DOMAIN lookupState :
                   lookupState[i] = "pending" =>
                       /\ discPc = "batch"
                       /\ i \in Range(batches[batchNo])
                       /\ \A b \in 1 .. (batchNo - 1) :
                              \A j \in Range(batches[b]) :
                                  lookupState[j] \in {"fulfilled", "rejected"}
            /\ inFlight <= cap

\* The outputs of kind k of the fulfilled probes, joined in launch order
LaunchOrderConcat(k) ==
    Concat([q \in 1 .. 8 |->
               IF probeState[q - 1] = "fulfilled" THEN probeOut[q - 1][k]
               ELSE << >>])

\* C16: once analyzeServer has returned, each merged collection (checks,
\* vulnerabilities, recommendations) is the concatenation of the outputs of
\* the fulfilled probes in the fixed launch order of the probes, so two
\* findings of one probe keep the order that probe gave them; this holds in
\* whatever order the probes settled.
C16_MergeOrder ==
    pc = "done" =>
        \A k \in {"checks", "vulnerabilities", "recommendations"} :
            result.value[k] = LaunchOrderConcat(k)

\* analyzeServer returned the merge of a probe with several checks, of a
\* later probe with a check, and of no finding of a probe that rejected
\* between the two.
C16_Witness ==
    /\ pc = "done"
    /\ \E p, r, q \in Probes :
           /\ p < r /\ r < q
           /\ probeState[p] = "fulfilled"
           /\ Len(probeOut[p].checks) >= 2
           /\ probeState[r] = "rejected"
           /\ probeState[q] = "fulfilled"
           /\ probeOut[q].checks # << >>
           /\ ~SettlesAtLaunch(p, server)
           /\ ~SettlesAtLaunch(q, server)
    /\ Len(result.value.checks) >= 3

\* The probes whose network operation ran into the request timeout
TimedOutProbes(srv, n) ==
    {p \in Probes :
        CASE p = 0 -> IF IsWebSocket(srv)
                      THEN srv.endpoint = "url" /\ n.ws = "timeout"
                      ELSE n.reach.cause = "timeout"
          [] p = 1 -> /\ srv.protocol \in {"https", "wss"}
                      /\ srv.endpoint = "url"
                      /\ n.cert.kind = "timeout"
          [] p = 2 -> n.auth.cause = "timeout"
          [] p = 3 -> ~IsWebSocket(srv) /\ n.http.cause = "timeout"
          [] p = 4 -> \E i \in DOMAIN n.api : n.api[i].cause = "timeout"
          [] p = 6 -> ~IsWebSocket(srv) /\ n.cors.cause = "timeout"
          [] OTHER -> FALSE}

\* The network n with every operation that timed out answered in time
WithoutTimeouts(n) ==
    LET InTime(r, answer) == IF r.cause = "timeout" THEN answer ELSE r
    IN  [reach |-> InTime(n.reach, Healthy.reach),
         ws    |-> IF n.ws = "timeout" THEN "open" ELSE n.ws,
         cert  |-> IF n.cert.kind = "timeout" THEN Healthy.cert ELSE n.cert,
         auth  |-> InTime(n.auth, Healthy.auth),
         http  |-> InTime(n.http, Healthy.http),
         api   |-> [i \in DOMAIN n.api |-> InTime(n.api[i], Healthy.api[i])],
         cors  |-> InTime(n.cors, Healthy.cors)]

\* C18 (as stated): when the network operation of a probe exceeds the
\* request timeout, that probe turns the expiry into an error-status check
\* of its own; the findings of every sibling probe are what they would have
\* been without the timeout, and analyzeServer still fulfils.
C18_IndependentTimeout ==
    (pc \in {"done", "rejected"} /\ probeFault = {} /\ ~tryFault
       /\ TimedOutProbes(server, net) # {}) =>
        /\ pc = "done"
        /\ result.status = "fulfilled"
        /\ \A p \in TimedOutProbes(server, net) :
               \E i \in DOMAIN probeOut[p].checks :
                   probeOut[p].checks[i].status = "error"
        /\ \A q \in Probes \ TimedOutProbes(server, net) :
               probeOut[q] = RunProbe(q, server, WithoutTimeouts(net))

\* A negotiated protocol version older than TLS 1.2
BelowTls12(version) == version \in {"TLSv1", "TLSv1.1"}

\* C21 (as stated): when the TLS probe has retrieved the certificate of an
\* https/wss server it returns exactly one 'tls-version' check; that check is
\* fail, with an 'outdated-tls' vulnerability, whenever the negotiated
\* protocol is below TLS 1.2, and it is pass only when the negotiated
\* protocol is TLS 1.2 or higher.
C21_TlsVersionPolicy ==
    CertificateRetrieved =>
        /\ CountId(unitOut.checks, "tls-version") = 1
        /\ \A i \in DOMAIN unitOut.checks :
               unitOut.checks[i].id = "tls-version" =>
                   /\ BelowTls12(unitNet.cert.tls) =>
                          /\ unitOut.checks[i].status = "fail"
                          /\ CountId(unitOut.vulnerabilities, "outdated-tls") = 1
                   /\ unitOut.checks[i].status = "pass" =>
                          ~BelowTls12(unitNet.cert.tls)

\* How many entries of seq carry the given status
CountStatus(seq, status) ==
    Cardinality({i \in DOMAIN seq : seq[i].status = status})

\* The HTTP security headers probe has returned after its GET was answered
HttpAnswered ==
    /\ unitPc = "returned"
    /\ unitProbe = 3
    /\ ~IsWebSocket(unitServer)
    /\ unitNet.http.ok

\* The security headers that the response does not carry
MissingHeaders ==
    {i \in DOMAIN SecurityHeaders : SecurityHeaders[i] \notin unitNet.http.headers}

\* Each of the five headers has one check of its own: pass without a
\* recommendation when the header is present, warning with one
\* recommendation when it is missing
OneCheckPerHeader ==
    \A i \in DOMAIN SecurityHeaders :
        /\ CountId(unitOut.checks, SecurityHeaderCheckId(i)) = 1
        /\ \A j \in DOMAIN unitOut.checks :
               unitOut.checks[j].id = SecurityHeaderCheckId(i) =>
                   unitOut.checks[j].status =
                       IF i \in MissingHeaders THEN "warning" ELSE "pass"
        /\ CountId(unitOut.recommendations, AddHeaderRecId(i)) =
               IF i \in MissingHeaders THEN 1 ELSE 0

\* C22 (as stated): when the GET of the HTTP security headers probe
\* succeeds for an http/https server, each of the five headers gets exactly
\* one check, pass without recommendation if present and warning with one
\* recommendation if missing, so that k missing headers give exactly k
\* warnings and k recommendations; for a ws/wss server the probe returns
\* nothing.
C22_SecurityHeaders ==
    /\ HttpAnswered =>
           /\ OneCheckPerHeader
           /\ CountStatus(unitOut.checks, "warning") = Cardinality(MissingHeaders)
           /\ Len(unitOut.recommendations) = Cardinality(MissingHeaders)
    /\ (unitPc = "returned" /\ unitProbe = 3 /\ IsWebSocket(unitServer)) =>
           unitOut = NoFindings

\* The checks and recommendations other than those of the Server header
HeaderChecks ==
    SelectSeq(unitOut.checks, LAMBDA c : c.id # "server-header-disclosure")

HeaderRecommendations ==
    SelectSeq(unitOut.recommendations, LAMBDA r : r.id # "hide-server-header")

\* C22 (amended): as stated for the five header checks, which are the first
\* five checks of the probe; a response that carries a Server header gets
\* one more warning check, 'server-header-disclosure' (severity low), and
\* one more recommendation, 'hide-server-header', and a response without
\* one gets neither; the probe never returns a vulnerability.
C22_SecurityHeadersAndServerHeader ==
    /\ HttpAnswered =>
           /\ OneCheckPerHeader
           /\ Len(HeaderChecks) = Len(SecurityHeaders)
           /\ CountStatus(HeaderChecks, "warning") = Cardinality(MissingHeaders)
           /\ Len(HeaderRecommendations) = Cardinality(MissingHeaders)
           /\ CountId(unitOut.checks, "server-header-disclosure") =
                  IF "server" \in unitNet.http.headers THEN 1 ELSE 0
           /\ CountId(unitOut.recommendations, "hide-server-header") =
                  IF "server" \in unitNet.http.headers THEN 1 ELSE 0
           /\ \A j \in DOMAIN unitOut.checks :
                  unitOut.checks[j].id = "server-header-disclosure" =>
                      /\ unitOut.checks[j].status = "warning"
                      /\ unitOut.checks[j].severity = "low"
           /\ unitOut.vulnerabilities = << >>
    /\ (unitPc = "returned" /\ unitProbe = 3 /\ IsWebSocket(unitServer)) =>
           unitOut = NoFindings

\* Two headers are missing, the later ones are present, and the response
\* names its server
C22_Witness ==
    /\ HttpAnswered
    /\ MissingHeaders = {1, 3}
    /\ "server" \in unitNet.http.headers
    /\ CountStatus(unitOut.checks, "warning") = 3
    /\ CountStatus(unitOut.checks, "pass") = 3

\* The reachability probe has returned
ReachReturned == unitPc = "returned" /\ unitProbe = 0

\* The probe's WebSocket connect opened
WsOpened == unitServer.endpoint = "url" /\ unitNet.ws = "open"

\* One check with the given status and no vulnerability
OneCheckNoVulnerability(status) ==
    /\ Len(unitOut.checks) = 1
    /\ unitOut.checks[1].status = status
    /\ unitOut.vulnerabilities = << >>

\* One fail check of severity critical and one 'endpoint-unreachable'
\* vulnerability
ReportedUnreachable ==
    /\ Len(unitOut.checks) = 1
    /\ unitOut.checks[1].status = "fail"
    /\ unitOut.checks[1].severity = "critical"
    /\ Len(unitOut.vulnerabilities) = 1
    /\ unitOut.vulnerabilities[1].id = "endpoint-unreachable"

\* C23: for http/https the reachability probe returns one pass check and no
\* vulnerability for a status in [200,300), one warning check and no
\* vulnerability for a status >= 400, and one fail check of severity
\* critical plus one 'endpoint-unreachable' vulnerability when the request
\* fails; for ws/wss it returns one pass check when the connect opens and
\* the same fail check plus vulnerability when it fails or times out.
C23_ReachabilityPolicy ==
    ReachReturned =>
        IF IsWebSocket(unitServer)
        THEN IF WsOpened THEN OneCheckNoVulnerability("pass")
             ELSE ReportedUnreachable
        ELSE /\ (unitNet.reach.ok /\ unitNet.reach.status >= 200
                   /\ unitNet.reach.status < 300) =>
                    OneCheckNoVulnerability("pass")
             /\ (unitNet.reach.ok /\ unitNet.reach.status >= 400) =>
                    OneCheckNoVulnerability("warning")
             /\ ~unitNet.reach.ok => ReportedUnreachable

\* A WebSocket connect that ran into the 10 s timer was reported unreachable
C23_Witness ==
    /\ ReachReturned
    /\ IsWebSocket(unitServer)
    /\ unitServer.endpoint = "url"
    /\ unitNet.ws = "timeout"
    /\ ReportedUnreachable

\* C30: the reachability probe returns at most one check, and for an
\* http/https server it returns no check, no vulnerability and no
\* recommendation exactly when the request completes with a status that is
\* outside [200,300) and below 400.
C30_SilentOnInformationalAndRedirect ==
    ReachReturned =>
        /\ Len(unitOut.checks) <= 1
        /\ ~IsWebSocket(unitServer) =>
               (unitOut = NoFindings
                    <=> /\ unitNet.reach.ok
                        /\ ~(unitNet.reach.status >= 200
                               /\ unitNet.reach.status < 300)
                        /\ unitNet.reach.status < 400)

\* A request answered with 301 left no trace in the probe's findings
C30_Witness ==
    /\ ReachReturned
    /\ ~IsWebSocket(unitServer)
    /\ unitNet.reach.ok
    /\ unitNet.reach.status = 301
    /\ unitOut = NoFindings

\* The rate-limit probe has returned
RateLimitReturned == unitPc = "returned" /\ unitProbe = 5

\* C25: the rate-limit probe returns the same findings whatever the network
\* does: exactly one pass check and no recommendation when the record's
\* metadata declares a rate-limit policy, exactly one warning check and
\* exactly one recommendation when the policy or the metadata is absent; it
\* returns no vulnerability, and it returns on every call.
C25_RateLimitFromMetadata ==
    /\ RateLimitReturned =>
           /\ \A n \in NetScenarios \cup UnitNets(0) :
                  RunProbe(5, unitServer, n) = unitOut
           /\ Len(unitOut.checks) = 1
           /\ unitOut.vulnerabilities = << >>
           /\ IF unitServer.metadata = "rateLimit"
              THEN /\ unitOut.checks[1].status = "pass"
                   /\ unitOut.recommendations = << >>
              ELSE /\ unitOut.checks[1].status = "warning"
                   /\ Len(unitOut.recommendations) = 1
    /\ \A srv \in Servers : SettlesAtLaunch(5, srv)
    /\ (pc \in {"awaiting", "done"} /\ 5 \notin probeFault) =>
           /\ probeState[5] = "fulfilled"
           /\ probeOut[5] = RunProbe(5, server, Healthy)

\* A declared policy passed although nothing answers on the network
C25_Witness ==
    /\ RateLimitReturned
    /\ unitServer.metadata = "rateLimit"
    /\ unitNet = AllDown
    /\ unitOut.checks[1].status = "pass"

\* analyzeServer has returned a result, and the rate-limit probe was not
\* made to raise an exception
ResultReturned ==
    pc = "done" /\ result.status = "fulfilled" /\ 5 \notin probeFault

\* C26: every result that analyzeServer returns contains exactly one
\* rate-limit check, whatever the network answered, hence at least one
\* check; its maxScore is positive, so its grade comes from the percentage
\* thresholds and never from the scorer's default for an empty collection.
C26_ResultHasACheck ==
    ResultReturned =>
        /\ CountId(result.value.checks, "rate-limit-configured") = 1
        /\ Len(result.value.checks) >= 1
        /\ ScoreLoop(result.value.checks, ZeroScore).maxScore > 0
        /\ result.value.overallScore =
               GradeOf(ScoreLoop(result.value.checks, ZeroScore))

\* A result was returned although nothing answers and two probes raised
C26_Witness ==
    /\ ResultReturned
    /\ net = AllDown
    /\ probeFault = {0, 1}
    /\ server.metadata = "absent"
    /\ CountId(result.value.checks, "rate-limit-configured") = 1

\* The order of the grades: F < D < C < B < A
GradeRank(grade) ==
    CASE grade = "F" -> 1
      [] grade = "D" -> 2
      [] grade = "C" -> 3
      [] grade = "B" -> 4
      [] grade = "A" -> 5

\* The collection with the status of its i-th check replaced
WithStatus(checks, i, status) == [checks EXCEPT ![i].status = status]

\* The grade of the scored collection
ScoredGrade == GradeRank(scoreResult.overallScore)

\* C27: for a non-empty checks collection, changing one check from fail or
\* error to warning, or from warning to pass, never lowers the grade;
\* appending a pass check never lowers it, and appending a fail or error
\* check never raises it (F < D < C < B < A).
C27_ScorerMonotone ==
    (scorePc = "scored" /\ checksIn # << >>) =>
        /\ \A i \in DOMAIN checksIn :
               /\ checksIn[i].status \in {"fail", "error"} =>
                      GradeRank(calculateSecurityScore(
                          WithStatus(checksIn, i, "warning"))) >= ScoredGrade
               /\ checksIn[i].status = "warning" =>
                      GradeRank(calculateSecurityScore(
                          WithStatus(checksIn, i, "pass"))) >= ScoredGrade
        /\ \A check \in InputChecks :
               /\ check.status = "pass" =>
                      GradeRank(calculateSecurityScore(
                          Append(checksIn, check))) >= ScoredGrade
               /\ check.status \in {"fail", "error"} =>
                      GradeRank(calculateSecurityScore(
                          Append(checksIn, check))) <= ScoredGrade

\* A collection graded A (a critical pass, an info warning) whose grade a
\* further fail check would lower
C27_Witness ==
    /\ scorePc = "scored"
    /\ Len(checksIn) = 2
    /\ checksIn[1].status = "pass"
    /\ checksIn[1].severity = "critical"
    /\ checksIn[2].status = "warning"
    /\ checksIn[2].severity = "info"
    /\ scoreResult.overallScore = "A"
    /\ \E check \in InputChecks :
           /\ check.status = "fail"
           /\ GradeRank(calculateSecurityScore(Append(checksIn, check)))
                  < ScoredGrade

\* C28 (as stated): whatever maxConcurrent is configured, the batching of
\* the enabled sources makes progress and ends: every iteration of the
\* chunk loop moves its index towards the end of the array, so the loop
\* runs at most once per enabled source before discoverServers goes on to
\* look the batches up and return.
C28_BatchingTerminates ==
    [][(discPc = "chunking" /\ discPc' = "chunking") =>
           /\ chunkI' > chunkI
           /\ Len(batches') <= Len(enabledSources(config))]_vars

\* The paths whose GET was answered with 200 and a body that matches a
\* sensitive-data pattern
SensitivePaths ==
    {i \in DOMAIN enumNet :
        enumNet[i].ok /\ enumNet[i].status = 200 /\ enumNet[i].sensitive}

\* C24: the enumeration requests the eight paths one after another in list
\* order, whichever of the requests fail, and when it returns it has
\* requested each of them once; it has emitted one 'sensitive information
\* exposure' vulnerability for each path answered with status 200 and a
\* body matching a sensitive-data pattern, and no other vulnerability.
C24_EnumerationSwallowsPerPath ==
    /\ enumLog = [k \in 1 .. Len(enumLog) |-> k]
    /\ enumPc = "awaiting" => Len(enumLog) = enumI
    /\ enumPc = "returned" =>
           /\ Len(enumLog) = Len(Endpoints)
           /\ \A i \in DOMAIN Endpoints :
                  CountId(enumOut.vulnerabilities, SensitiveInfoId(i)) =
                      IF i \in SensitivePaths THEN 1 ELSE 0
           /\ Len(enumOut.vulnerabilities) = Cardinality(SensitivePaths)

\* The request of the third path failed, and the later paths were requested
\* and reported all the same
C24_Witness ==
    /\ enumPc = "returned"
    /\ ~enumNet[3].ok
    /\ SensitivePaths = DOMAIN Endpoints \ {3}
    /\ Len(enumLog) = 8
    /\ Len(enumOut.vulnerabilities) = 7

\* What the promise is settled with when the given event is the first to
\* call resolve or reject
SettledBy(event) ==
    CASE event = "connect" -> [status |-> "fulfilled", kind |-> "peer"]
      [] event = "error"   -> [status |-> "rejected", kind |-> "error"]
      [] event = "timer"   -> [status |-> "rejected", kind |-> "timeout"]

\* The promise is settled by the first event and by no other, the timer
\* stays armed until it fires, and the probe's findings are those of the
\* first event
FirstEventDecides ==
    /\ certLog = << >> => certPromise = Pending /\ certSettles = 0
    /\ certLog # << >> =>
           /\ certPromise = SettledBy(Head(certLog))
           /\ certSettles = 1
    /\ timer = "fired" => certPromise.status # "pending"
    /\ certPc # "start" => timer \in {"armed", "fired"}
    /\ timer = "fired" => socket = "destroyed"
    /\ certPc = "returned" =>
           /\ certLog # << >>
           /\ tlsOut = checkSSLConfiguration(certServer,
                  [Healthy EXCEPT
                      !.cert = CertOutcome(SettledBy(Head(certLog)).kind,
                                           certPeer)])

\* C29: the certificate retrieval settles exactly once, by the first of the
\* connect callback, the socket error and the timer; the timer is never
\* cancelled, so it fires in every run, destroys the socket, and finds the
\* promise settled at the latest then; an event after the first changes
\* neither the settled outcome nor the findings the TLS probe returned.
C29_CertificateRetrievalRace ==
    /\ []FirstEventDecides
    /\ <>(timer = "fired" /\ certPromise.status # "pending")
    /\ [][certPromise.status # "pending" => certPromise' = certPromise]_vars
    /\ [][certPc = "returned" => tlsOut' = tlsOut]_vars

\* The handshake completed, the probe returned its findings, and the timer
\* fired afterwards and destroyed the socket
C29_Witness ==
    /\ certLog = << "connect", "timer" >>
    /\ certPc = "returned"
    /\ socket = "destroyed"
    /\ certPromise = SettledBy("connect")
    /\ CountId(tlsOut.checks, "ssl-certificate-valid") = 1

====
